---- MODULE Spec2Model ----
\* mdzen: the reader session (src/src/app.rs), the search-highlight splitting
\* of the renderer and its compiler from parser events to output blocks
\* (src/src/markdown.rs).
\*
\* A Rust str is modelled as its UTF-8 encoding: a sequence of bytes (0..255).
\* Offsets are 0-based byte offsets, as in the source; SubSeq is 1-based.
EXTENDS Integers, Sequences, FiniteSets, TLC

VARIABLES
    \* MarkdownReaderApp (app.rs:19-50)
    content, current_file, show_search, search_query, search_results,
    current_search_index, search_case_sensitive, image_cache, show_toc,
    toc_headers, scroll_to_header,
    \* history: the last operation called, its argument and result, and the
    \* session before the call
    last_call, last_arg, last_ret, pre,
    \* where update() stands: "panels" while the menu, the dialogs, the search
    \* bar and the TOC sidebar take input, "central" once a TOC button was
    \* clicked and only the central panel's render pass is left of the frame
    update_pc,
    \* <<url, ret>> of every try_load_image since the last document load
    fetch_log,
    \* the compiler fed event by event: the query, the scroll target and the
    \* image world of the pass, the events still to come of a sample document
    \* (or "free": any event the parser's nesting admits), the open tags, the
    \* events fed, the compiler state before and after the last event, and
    \* the state of generate_toc's loop over the same events
    comp_query, comp_scroll, comp_world, comp_input, comp_open, comp_fed,
    comp_pre, comp_st, comp_toc,
    \* one fragment handed to the search / highlight functions
    frag_text, frag_query, frag_case, frag_element, frag_pc, frag_out,
    \* one image reference handed to try_load_image with a current file, and
    \* the read try_load_image makes for it
    img_url, img_file, img_pc, img_out

appVars == <<content, current_file, show_search, search_query, search_results,
             current_search_index, search_case_sensitive, image_cache, show_toc,
             toc_headers, scroll_to_header>>
histVars == <<last_call, last_arg, last_ret, pre, update_pc, fetch_log>>
compVars == <<comp_query, comp_scroll, comp_world, comp_input, comp_open, comp_fed,
              comp_pre, comp_st, comp_toc>>
fragVars == <<frag_text, frag_query, frag_case, frag_element, frag_pc, frag_out>>
imgVars == <<img_url, img_file, img_pc, img_out>>
vars == <<appVars, histVars, compVars, fragVars, imgVars>>

-----------------------------------------------------------------------------
\* Bounds

\* longest fragment / document text, in characters
MaxTextLen == 3
\* longest search query, in characters
MaxQueryLen == 2
\* most events of a freely chosen event sequence
MaxEvents == 5

-----------------------------------------------------------------------------
\* Option<T>: <<>> is None, <<x>> is Some(x)

None == <<>>
Some(x) == <<x>>
is_some(o) == o # <<>>

\* HashMap<K, V>: a function on the keys present
EmptyMap == [k \in {} |-> None]
contains_key(map, k) == k \in DOMAIN map
insert(map, k, v) == [x \in DOMAIN map \cup {k} |-> IF x = k THEN v ELSE map[x]]

-----------------------------------------------------------------------------
\* str: UTF-8 bytes

\* a UTF-8 continuation byte (10xxxxxx)
IsContinuationByte(b) == b >= 128 /\ b < 192

\* str::is_char_boundary(i), i a 0-based byte offset
is_char_boundary(s, i) ==
    \/ i = 0
    \/ i = Len(s)
    \/ (i > 0 /\ i < Len(s) /\ ~IsContinuationByte(s[i + 1]))

\* whether &s[a..b] is a valid slice; Rust panics when it is not
slice_ok(s, a, b) ==
    a <= b /\ b <= Len(s) /\ is_char_boundary(s, a) /\ is_char_boundary(s, b)

\* &s[a..b]
slice(s, a, b) == SubSeq(s, a + 1, b)

\* the encoded width of the character whose first byte is b
utf8_char_width(b) ==
    IF b < 128 THEN 1 ELSE IF b < 224 THEN 2 ELSE IF b < 240 THEN 3 ELSE 4

\* str::chars(), each character as its own byte sequence
RECURSIVE chars(_)
chars(s) ==
    IF s = <<>> THEN <<>>
    ELSE LET w == utf8_char_width(s[1])
         IN  <<SubSeq(s, 1, w)>> \o chars(SubSeq(s, w + 1, Len(s)))

\* char::to_lowercase: ASCII A-Z; U+0130 (C4 B0) -> "i" U+0307 (69 CC 87);
\* U+212A KELVIN SIGN (E2 84 AA) -> "k" (6B); any other character is unchanged
char_to_lowercase(c) ==
    IF Len(c) = 1 /\ c[1] >= 65 /\ c[1] <= 90 THEN <<c[1] + 32>>
    ELSE IF c = <<196, 176>> THEN <<105, 204, 135>>
    ELSE IF c = <<226, 132, 170>> THEN <<107>>
    ELSE c

RECURSIVE concat(_)
concat(ss) == IF ss = <<>> THEN <<>> ELSE Head(ss) \o concat(Tail(ss))

\* str::to_lowercase
to_lowercase(s) ==
    LET cs == chars(s)
    IN  concat([i \in 1..Len(cs) |-> char_to_lowercase(cs[i])])

\* str::find(&str): the byte offset of the first occurrence, as an Option
find(haystack, needle) ==
    LET hits == {p \in 0..(Len(haystack) - Len(needle)) :
                    SubSeq(haystack, p + 1, p + Len(needle)) = needle}
    IN  IF hits = {} THEN None
        ELSE Some(CHOOSE p \in hits : \A q \in hits : p <= q)

\* char::is_whitespace for the ASCII range (tab, LF, VT, FF, CR, space)
is_whitespace(b) == b \in {9, 10, 11, 12, 13, 32}

\* str::trim
RECURSIVE trim_start(_)
trim_start(s) ==
    IF s # <<>> /\ is_whitespace(s[1]) THEN trim_start(Tail(s)) ELSE s

RECURSIVE trim_end(_)
trim_end(s) ==
    IF s # <<>> /\ is_whitespace(s[Len(s)])
    THEN trim_end(SubSeq(s, 1, Len(s) - 1)) ELSE s

trim(s) == trim_end(trim_start(s))

\* str::lines(): split at "\n", a final empty line is not produced, and a
\* "\r" before the "\n" is not part of the line
RECURSIVE lines(_)
lines(s) ==
    IF s = <<>> THEN <<>>
    ELSE LET nl == find(s, <<10>>)
         IN  IF nl = None THEN <<s>>
             ELSE LET raw == SubSeq(s, 1, nl[1])
                      line == IF raw # <<>> /\ raw[Len(raw)] = 13
                              THEN SubSeq(raw, 1, Len(raw) - 1) ELSE raw
                  IN  <<line>> \o lines(SubSeq(s, nl[1] + 2, Len(s)))

\* all strings of at most n characters over the characters cs
RECURSIVE Strings(_, _)
Strings(cs, n) ==
    IF n = 0 THEN {<<>>}
    ELSE LET shorter == Strings(cs, n - 1)
         IN  shorter \cup {s \o c : s \in shorter, c \in cs}

-----------------------------------------------------------------------------
\* The file system and the markdown parser (external collaborators)

\* "# Ab\nab ab\n"
TextA == <<35, 32, 65, 98, 10, 97, 98, 32, 97, 98, 10>>
\* "![b](p)\n## b\n"
TextB == <<33, 91, 98, 93, 40, 112, 41, 10, 35, 35, 32, 98, 10>>

\* "![b](p)![b](p)\n\na\nb\n=\n": one image twice, and a setext heading of
\* two lines
TextC == <<33, 91, 98, 93, 40, 112, 41, 33, 91, 98, 93, 40, 112, 41, 10, 10,
           97, 10, 98, 10, 61, 10>>

\* the paths a load can be asked for; "gone.md" cannot be read
Paths == {"a.md", "b.md", "c.md", "gone.md"}

\* fs::read_to_string(&path): Ok(text) as Some(text), Err as None
read_to_string(path) ==
    IF path = "a.md" THEN Some(TextA)
    ELSE IF path = "b.md" THEN Some(TextB)
    ELSE IF path = "c.md" THEN Some(TextC)
    ELSE None

Start(tag) == [ev |-> "Start", tag |-> tag]
End(tag) == [ev |-> "End", tag |-> tag]
StartHeading(level) == [ev |-> "Start", tag |-> "Heading", level |-> level]
StartImage(url) == [ev |-> "Start", tag |-> "Image", dest_url |-> url]
Text(t) == [ev |-> "Text", text |-> t]
Code(t) == [ev |-> "Code", text |-> t]
StartLink(url) == [ev |-> "Start", tag |-> "Link", dest_url |-> url]
StartList(is_ordered) == [ev |-> "Start", tag |-> "List", is_ordered |-> is_ordered]
StartCodeBlock(lang) == [ev |-> "Start", tag |-> "CodeBlock", lang |-> lang]
SoftBreak == [ev |-> "SoftBreak"]
HardBreak == [ev |-> "HardBreak"]
Rule == [ev |-> "Rule"]

\* pulldown_cmark::Parser::new(markdown): the event sequence of a document
Parser(markdown) ==
    IF markdown = TextA
    THEN <<StartHeading(1), Text(<<65, 98>>), End("Heading"),
           Start("Paragraph"), Text(<<97, 98, 32, 97, 98>>), End("Paragraph")>>
    ELSE IF markdown = TextB
    THEN <<Start("Paragraph"), StartImage(<<112>>), Text(<<98>>), End("Image"),
           End("Paragraph"),
           StartHeading(2), Text(<<98>>), End("Heading")>>
    ELSE IF markdown = TextC
    THEN <<Start("Paragraph"), StartImage(<<112>>), Text(<<98>>), End("Image"),
           StartImage(<<112>>), Text(<<98>>), End("Image"), End("Paragraph"),
           StartHeading(1), Text(<<97>>), SoftBreak, Text(<<98>>), End("Heading")>>
    ELSE <<>>

-----------------------------------------------------------------------------
\* app.rs: generate_toc

\* generate_toc counting a break as a blank of the title
toc_event_breaks_in_title(st, event) ==
    IF event.ev = "Start" /\ event.tag = "Heading"
    THEN [st EXCEPT !.current_header = Some([level |-> event.level, title |-> <<>>])]
    ELSE IF event.ev = "End" /\ event.tag = "Heading"
    THEN IF is_some(st.current_header)
         THEN LET h == st.current_header[1]
              IN  [st EXCEPT
                     !.current_header = None,
                     !.toc_headers =
                        IF trim(h.title) # <<>>
                        THEN Append(@, [level |-> h.level,
                                        title |-> trim(h.title),
                                        line_number |-> st.line_number])
                        ELSE @]
         ELSE st
    ELSE IF event.ev \in {"Text", "Code"}
    THEN IF is_some(st.current_header)
         THEN [st EXCEPT !.current_header =
                  Some([@[1] EXCEPT !.title = @ \o event.text])]
         ELSE st
    ELSE IF event.ev \in {"SoftBreak", "HardBreak"}
    THEN [st EXCEPT !.line_number = @ + 1,
                    !.current_header = IF is_some(@)
                                       THEN Some([@[1] EXCEPT !.title = Append(@, 32)])
                                       ELSE @]
    ELSE st

\* one step of the loop over the parser's events; st is
\* [current_header, line_number, toc_headers]
toc_event(st, event) ==
    IF event.ev = "Start" /\ event.tag = "Heading"
    THEN [st EXCEPT !.current_header = Some([level |-> event.level, title |-> <<>>])]
    ELSE IF event.ev = "End" /\ event.tag = "Heading"
    THEN IF is_some(st.current_header)
         THEN LET h == st.current_header[1]
              IN  [st EXCEPT
                     !.current_header = None,
                     !.toc_headers =
                        IF trim(h.title) # <<>>
                        THEN Append(@, [level |-> h.level,
                                        title |-> trim(h.title),
                                        line_number |-> st.line_number])
                        ELSE @]
         ELSE st
    ELSE IF event.ev \in {"Text", "Code"}
    THEN IF is_some(st.current_header)
         THEN [st EXCEPT !.current_header =
                  Some([@[1] EXCEPT !.title = @ \o event.text])]
         ELSE st
    ELSE IF event.ev \in {"SoftBreak", "HardBreak"}
    THEN [st EXCEPT !.line_number = @ + 1]
    ELSE st

RECURSIVE toc_loop(_, _)
toc_loop(st, events) ==
    IF events = <<>> THEN st
    ELSE toc_loop(toc_event(st, Head(events)), Tail(events))

\* generate_toc(&mut self)
generate_toc(self) ==
    [self EXCEPT !.toc_headers =
        toc_loop([current_header |-> None, line_number |-> 0, toc_headers |-> <<>>],
                 Parser(self.content)).toc_headers]

-----------------------------------------------------------------------------
\* app.rs: perform_search, next_search_result, previous_search_result

\* the scan resuming one byte after match_start, so that matches may overlap
RECURSIVE search_line_loop_overlapping(_, _, _, _, _)
search_line_loop_overlapping(line_number, line, search_line, query, start) ==
    LET pos == find(SubSeq(search_line, start + 1, Len(search_line)), query)
    IN  IF pos = None THEN <<>>
        ELSE LET match_start == start + pos[1]
                 match_end == match_start + Len(query)
             IN  <<[line_number |-> line_number, line_content |-> line,
                    match_start |-> match_start, match_end |-> match_end]>>
                 \o search_line_loop_overlapping(line_number, line, search_line,
                                                 query, match_start + 1)

\* the while-let loop over one line: the results from byte offset start on
RECURSIVE search_line_loop(_, _, _, _, _)
search_line_loop(line_number, line, search_line, query, start) ==
    LET pos == find(SubSeq(search_line, start + 1, Len(search_line)), query)
    IN  IF pos = None THEN <<>>
        ELSE LET match_start == start + pos[1]
                 match_end == match_start + Len(query)
             IN  <<[line_number |-> line_number, line_content |-> line,
                    match_start |-> match_start, match_end |-> match_end]>>
                 \o search_line_loop(line_number, line, search_line, query, match_end)

\* perform_search: the loop over content.lines() (app.rs:204-231)
search_all_lines(self) ==
    LET query == IF self.search_case_sensitive THEN self.search_query
                 ELSE to_lowercase(self.search_query)
        ls == lines(self.content)
    IN  concat([n \in 1..Len(ls) |->
            search_line_loop(n - 1, ls[n],
                IF self.search_case_sensitive THEN ls[n] ELSE to_lowercase(ls[n]),
                query, 0)])

\* perform_search returning on an empty query before it resets the cursor
perform_search_late_reset(self) ==
    IF self.search_query = <<>> THEN [self EXCEPT !.search_results = <<>>]
    ELSE [self EXCEPT !.search_results = search_all_lines(self),
                      !.current_search_index = 0]

\* perform_search without the reset of the cursor
perform_search_keeps_cursor(self) ==
    LET cleared == [self EXCEPT !.search_results = <<>>]
    IN  IF self.search_query = <<>> THEN cleared
        ELSE [cleared EXCEPT !.search_results = search_all_lines(self)]

\* perform_search dropping the loaded images as well
perform_search_clears_cache(self) ==
    LET cleared == [self EXCEPT !.search_results = <<>>, !.current_search_index = 0,
                                !.image_cache = EmptyMap]
    IN  IF self.search_query = <<>> THEN cleared
        ELSE [cleared EXCEPT !.search_results = search_all_lines(self)]

\* perform_search(&mut self)
perform_search(self) ==
    LET cleared == [self EXCEPT !.search_results = <<>>, !.current_search_index = 0]
    IN  IF self.search_query = <<>> THEN cleared
        ELSE [cleared EXCEPT !.search_results = search_all_lines(self)]

\* next_search_result without the wrap-around
next_search_result_no_wrap(self) ==
    IF self.search_results # <<>>
    THEN [self EXCEPT !.current_search_index = @ + 1]
    ELSE self

\* next_search_result(&mut self)
next_search_result(self) ==
    IF self.search_results # <<>>
    THEN [self EXCEPT !.current_search_index = (@ + 1) % Len(self.search_results)]
    ELSE self

\* previous_search_result without the is_empty guard
previous_search_result_unguarded(self) ==
    [self EXCEPT !.current_search_index =
        IF @ = 0 THEN Len(self.search_results) - 1 ELSE @ - 1]

\* previous_search_result(&mut self)
previous_search_result(self) ==
    IF self.search_results # <<>>
    THEN [self EXCEPT !.current_search_index =
            IF @ = 0 THEN Len(self.search_results) - 1 ELSE @ - 1]
    ELSE self

\* load_file without image_cache.clear()
load_file_keeps_cache(self, path) ==
    LET read == read_to_string(path)
    IN  IF read = None THEN [ret |-> "Err", self |-> self]
        ELSE [ret |-> "Ok",
              self |-> generate_toc(
                 [self EXCEPT !.content = read[1],
                              !.current_file = Some(path),
                              !.search_results = <<>>,
                              !.current_search_index = 0])]

\* load_file clearing the caches before it reads the file
load_file_clears_first(self, path) ==
    LET read == read_to_string(path)
        cleared == [self EXCEPT !.image_cache = EmptyMap,
                                !.search_results = <<>>,
                                !.current_search_index = 0]
    IN  IF read = None THEN [ret |-> "Err", self |-> cleared]
        ELSE [ret |-> "Ok",
              self |-> generate_toc(
                 [cleared EXCEPT !.content = read[1],
                                 !.current_file = Some(path)])]

\* load_file adding the headings of the new document to the entries it has
load_file_appends_toc(self, path) ==
    LET read == read_to_string(path)
    IN  IF read = None THEN [ret |-> "Err", self |-> self]
        ELSE LET loaded == generate_toc(
                     [self EXCEPT !.content = read[1],
                                  !.current_file = Some(path),
                                  !.image_cache = EmptyMap,
                                  !.search_results = <<>>,
                                  !.current_search_index = 0])
             IN  [ret |-> "Ok",
                  self |-> [loaded EXCEPT !.toc_headers = self.toc_headers \o @]]

\* load_file(&mut self, path): [ret, self]
load_file(self, path) ==
    LET read == read_to_string(path)
    IN  IF read = None THEN [ret |-> "Err", self |-> self]
        ELSE [ret |-> "Ok",
              self |-> generate_toc(
                 [self EXCEPT !.content = read[1],
                              !.current_file = Some(path),
                              !.image_cache = EmptyMap,
                              !.search_results = <<>>,
                              !.current_search_index = 0])]

-----------------------------------------------------------------------------
\* markdown.rs: styled runs and search-highlight splitting
\*
\* A LayoutJob is the sequence of its sections, [text, format]; a TextFormat is
\* [font, size, color, background, underline, italics], size in tenths of
\* base_font_size. A call that panics yields [panic |-> TRUE].

TextFormat(font, size, color, background, underline, italics) ==
    [font |-> font, size |-> size, color |-> color, background |-> background,
     underline |-> underline, italics |-> italics]

\* LayoutJob::append
job_append(job, text, format) == Append(job, [text |-> text, format |-> format])

Done(job) == [panic |-> FALSE, job |-> job]
Panic(job) == [panic |-> TRUE, job |-> job]

\* the while-let loop and the trailing append shared, line for line, by
\* append_text_with_search_highlight, append_heading_with_search_highlight and
\* append_inline_code_with_search_highlight; normal and hl are the formats of
\* the plain and of the highlighted runs
RECURSIVE search_highlight_loop(_, _, _, _, _, _, _, _, _)
search_highlight_loop(job, text_str, text_lower, query_lower, search_query_, last_end, start_pos, normal, hl) ==
    IF ~slice_ok(text_lower, start_pos, Len(text_lower)) THEN Panic(job)
    ELSE
    LET pos == find(slice(text_lower, start_pos, Len(text_lower)), query_lower)
    IN  IF pos = None
        THEN \* add remaining text after the last match
             IF last_end < Len(text_str)
             THEN IF slice_ok(text_str, last_end, Len(text_str))
                  THEN Done(job_append(job, slice(text_str, last_end, Len(text_str)),
                                       normal))
                  ELSE Panic(job)
             ELSE Done(job)
        ELSE
        LET match_start == start_pos + pos[1]
            match_end == match_start + Len(search_query_)
            before_ok == match_start > last_end
                            => slice_ok(text_str, last_end, match_start)
            job1 == IF match_start > last_end
                    THEN job_append(job, slice(text_str, last_end, match_start), normal)
                    ELSE job
        IN  IF ~before_ok THEN Panic(job)
            ELSE IF ~slice_ok(text_str, match_start, match_end) THEN Panic(job1)
            ELSE search_highlight_loop(
                    job_append(job1, slice(text_str, match_start, match_end), hl),
                    text_str, text_lower, query_lower, search_query_,
                    match_end, match_end, normal, hl)

\* append_text_segment: the format of one run of paragraph text
text_segment_format(element, font_size, is_search_match) ==
    TextFormat("proportional", font_size,
               IF is_search_match THEN "warn_fg_color"
               ELSE IF element.is_link THEN "hyperlink_color" ELSE "text_color",
               IF is_search_match THEN "selection.bg_fill" ELSE "TRANSPARENT",
               element.is_link, element.is_emphasis)

append_text_with_search_highlight(job, text, element, search_query_, font_size) ==
    search_highlight_loop(job, text, to_lowercase(text), to_lowercase(search_query_),
                          search_query_, 0, 0,
                          text_segment_format(element, font_size, FALSE),
                          text_segment_format(element, font_size, TRUE))

\* append_text whose plain branch uses the highlight background
append_text_marks_plain(job, text, element, search_query_) ==
    LET font_size == IF element.is_strong THEN 11 ELSE 10
        r == IF search_query_ # <<>>
             THEN append_text_with_search_highlight(job, text, element,
                                                    search_query_, font_size)
             ELSE Done(job_append(job, text,
                    TextFormat("proportional", font_size,
                               IF element.is_link THEN "hyperlink_color"
                               ELSE "text_color",
                               "selection.bg_fill", element.is_link,
                               element.is_emphasis)))
    IN  [panic |-> r.panic, job |-> r.job,
         link_info |-> IF element.is_link /\ element.link_url # <<>>
                       THEN Some(<<element.link_url, text>>) ELSE None]

\* append_text: [panic, job, link_info]
append_text(job, text, element, search_query_) ==
    LET font_size == IF element.is_strong THEN 11 ELSE 10
        r == IF search_query_ # <<>>
             THEN append_text_with_search_highlight(job, text, element,
                                                    search_query_, font_size)
             ELSE Done(job_append(job, text,
                    TextFormat("proportional", font_size,
                               IF element.is_link THEN "hyperlink_color"
                               ELSE "text_color",
                               "TRANSPARENT", element.is_link, element.is_emphasis)))
    IN  [panic |-> r.panic, job |-> r.job,
         link_info |-> IF element.is_link /\ element.link_url # <<>>
                       THEN Some(<<element.link_url, text>>) ELSE None]

append_heading_with_search_highlight(job, text, font_size, search_query_) ==
    search_highlight_loop(job, text, to_lowercase(text), to_lowercase(search_query_),
                          search_query_, 0, 0,
                          TextFormat("proportional", font_size, "text_color",
                                     "TRANSPARENT", FALSE, FALSE),
                          TextFormat("proportional", font_size, "warn_fg_color",
                                     "selection.bg_fill", FALSE, FALSE))

\* render_heading: the job it lays out for the heading's label
render_heading(text, level, search_query_) ==
    LET font_size == CASE level = 1 -> 20 [] level = 2 -> 17 [] level = 3 -> 14
                       [] level = 4 -> 12 [] level = 5 -> 11 [] OTHER -> 10
    IN  IF search_query_ # <<>>
        THEN append_heading_with_search_highlight(<<>>, text, font_size, search_query_)
        ELSE Done(job_append(<<>>, text,
                TextFormat("proportional", font_size, "text_color", "TRANSPARENT",
                           FALSE, FALSE)))

append_inline_code_with_search_highlight(job, text, search_query_) ==
    search_highlight_loop(job, text, to_lowercase(text), to_lowercase(search_query_),
                          search_query_, 0, 0,
                          TextFormat("monospace", 9, "text_color", "code_bg_color",
                                     FALSE, FALSE),
                          TextFormat("monospace", 9, "warn_fg_color",
                                     "selection.bg_fill", FALSE, FALSE))

append_inline_code(job, text, search_query_) ==
    IF search_query_ # <<>>
    THEN append_inline_code_with_search_highlight(job, text, search_query_)
    ELSE Done(job_append(job, text,
            TextFormat("monospace", 9, "text_color", "code_bg_color", FALSE, FALSE)))

-----------------------------------------------------------------------------
\* markdown.rs: render_events, the compiler from parser events to output blocks

\* the image references of the documents
ImageUrls == {<<112>>}

\* str::starts_with
starts_with(s, prefix) ==
    Len(s) >= Len(prefix) /\ SubSeq(s, 1, Len(prefix)) = prefix

\* "http://" and "https://"
HttpPrefix == <<104, 116, 116, 112, 58, 47, 47>>
HttpsPrefix == <<104, 116, 116, 112, 115, 58, 47, 47>>

\* Path::parent of a path without ".." components and without doubled or
\* trailing separators: the path without its last component, None for the
\* root and for the empty path
parent(path) ==
    LET seps == {i \in 1..Len(path) : path[i] = 47}
        last == IF seps = {} THEN 0 ELSE CHOOSE i \in seps : \A j \in seps : j <= i
    IN  IF path = <<>> \/ path = <<47>> THEN None
        ELSE IF last = 1 THEN Some(<<47>>)
        ELSE Some(SubSeq(path, 1, last - 1))

\* Path::join (PathBuf::push): an absolute path replaces the base, any other
\* is appended after a separator, which is added unless the base is empty or
\* ends with one
join(base, path) ==
    IF path # <<>> /\ path[1] = 47 THEN path
    ELSE IF base = <<>> \/ base[Len(base)] = 47 THEN base \o path
    ELSE base \o <<47>> \o path

\* try_load_image reading "https://" references as local files
try_load_image_http_only(url, current_file_) ==
    IF starts_with(url, HttpPrefix)
    THEN [read |-> "reqwest::blocking::get", target |-> url]
    ELSE [read |-> "std::fs::read",
          target |-> IF is_some(current_file_)
                     THEN LET dir == parent(current_file_[1])
                          IN  join(IF is_some(dir) THEN dir[1] ELSE <<46>>, url)
                     ELSE url]

\* try_load_image up to the bytes of the image: the read it makes, over the
\* network for a reference with the prefix http:// or https://, else of the
\* local file at the reference joined to the parent of the current file
try_load_image(url, current_file_) ==
    IF starts_with(url, HttpPrefix) \/ starts_with(url, HttpsPrefix)
    THEN [read |-> "reqwest::blocking::get", target |-> url]
    ELSE [read |-> "std::fs::read",
          target |-> IF is_some(current_file_)
                     THEN LET dir == parent(current_file_[1])
                          IN  join(IF is_some(dir) THEN dir[1] ELSE <<46>>, url)
                     ELSE url]

\* load_image: [ret, image_cache, fetched]; ret is the Option<TextureHandle>
\* ("Ok" stands for the texture), fetched tells whether try_load_image ran;
\* world[url] is what try_load_image (network, file system, decoder) would
\* answer for url now, a reference outside the world cannot be resolved
load_image_forgets_errors(url, cache, world) ==
    IF contains_key(cache, url)
    THEN [ret |-> IF cache[url] = "Ok" THEN Some("Ok") ELSE None,
          image_cache |-> cache, fetched |-> FALSE]
    ELSE LET load_result == IF url \in DOMAIN world THEN world[url] ELSE "Err"
         IN  [ret |-> IF load_result = "Ok" THEN Some("Ok") ELSE None,
              image_cache |-> IF load_result = "Ok"
                              THEN insert(cache, url, load_result) ELSE cache,
              fetched |-> TRUE]

load_image(url, cache, world) ==
    IF contains_key(cache, url)
    THEN [ret |-> IF cache[url] = "Ok" THEN Some("Ok") ELSE None,
          image_cache |-> cache, fetched |-> FALSE]
    ELSE LET load_result == IF url \in DOMAIN world THEN world[url] ELSE "Err"
         IN  [ret |-> IF load_result = "Ok" THEN Some("Ok") ELSE None,
              image_cache |-> insert(cache, url, load_result),
              fetched |-> TRUE]

\* impl Default for ElementState
DefaultElementState ==
    [is_heading |-> FALSE, heading_level |-> 0, is_emphasis |-> FALSE,
     is_strong |-> FALSE, is_blockquote |-> FALSE, is_link |-> FALSE,
     link_url |-> <<>>, accumulated_text |-> <<>>]

\* ui.add_space(amount)
add_space(amount) == [block |-> "Space", amount |-> amount]

\* "Image: "
ImageLabel == <<73, 109, 97, 103, 101, 58, 32>>

\* a placeholder that drops the alt text
render_image_placeholder_untitled(url, title) ==
    [block |-> "Image", url |-> url, title |-> <<>>, texture |-> None,
     labels |-> <<ImageLabel \o url>> \o (IF url # <<>> THEN <<url>> ELSE <<>>)]

\* render_image_placeholder: the framed labels it shows
render_image_placeholder(url, title) ==
    [block |-> "Image", url |-> url, title |-> title, texture |-> None,
     labels |-> <<ImageLabel \o (IF title = <<>> THEN url ELSE title)>>
                \o (IF url # <<>> THEN <<url>> ELSE <<>>)]

\* render_image: [block, image_cache, fetched]; a loaded image is shown with
\* its caption (the alt text, when there is one)
render_image(url, title, cache, world) ==
    LET l == load_image(url, cache, world)
    IN  [block |-> IF is_some(l.ret)
                   THEN [block |-> "Image", url |-> url, title |-> title,
                         texture |-> l.ret,
                         labels |-> IF title # <<>> THEN <<title>> ELSE <<>>]
                   ELSE render_image_placeholder(url, title),
         image_cache |-> l.image_cache,
         fetched |-> l.fetched]

\* render_nested_list: one line per item, its text trimmed
render_nested_list(items, is_ordered) ==
    [block |-> "List", ordered |-> is_ordered,
     items |-> [i \in 1..Len(items) |-> <<trim(items[i][1]), items[i][2]>>]]

\* render_table: draws nothing when there are neither headers nor rows
render_table(headers, rows) ==
    [block |-> "Table", headers |-> headers, rows |-> rows,
     drawn |-> ~(headers = <<>> /\ rows = <<>>)]

\* the locals of render_events before the first event, with the widgets
\* drawn so far (ui), the image cache, and the log of the load_image calls
\* (shown: <<url, ret>> of every call, fetched: those for which try_load_image
\* ran)
RenderState(cache) ==
    [current_paragraph |-> <<>>,
     current_element |-> DefaultElementState,
     in_code_block |-> FALSE,
     code_block_content |-> <<>>,
     code_block_lang |-> <<>>,
     paragraph_has_content |-> FALSE,
     in_blockquote |-> FALSE,
     paragraph_links |-> <<>>,
     list_stack |-> <<>>,
     current_list_item |-> <<>>,
     current_nesting_level |-> 0,
     in_table |-> FALSE,
     table_headers |-> <<>>,
     table_rows |-> <<>>,
     current_table_row |-> <<>>,
     current_table_cell |-> <<>>,
     ui |-> <<>>,
     image_cache |-> cache,
     shown |-> <<>>,
     fetched |-> <<>>,
     panic |-> FALSE]

\* the else branch of Event::Text and of the two breaks: append_text into the
\* paragraph, the link it returns pushed to paragraph_links
paragraph_append(st, text, search_query_, has_content) ==
    LET r == append_text(st.current_paragraph, text, st.current_element, search_query_)
    IN  IF r.panic THEN [st EXCEPT !.panic = TRUE]
        ELSE [st EXCEPT !.current_paragraph = r.job,
                        !.paragraph_links = IF is_some(r.link_info)
                                            THEN Append(@, r.link_info[1]) ELSE @,
                        !.paragraph_has_content = has_content \/ @]

\* Event::Start(Tag::Paragraph)
start_paragraph(st) ==
    [st EXCEPT !.current_paragraph = <<>>, !.paragraph_has_content = FALSE]

\* Event::End(TagEnd::Paragraph)
end_paragraph_always_emits(st) ==
    [st EXCEPT !.ui = @ \o <<IF st.in_blockquote
                              THEN [block |-> "BlockQuote", job |-> st.current_paragraph]
                              ELSE [block |-> "Paragraph", job |-> st.current_paragraph,
                                    links |-> st.paragraph_links],
                             add_space(8)>>,
               !.current_paragraph = <<>>,
               !.paragraph_has_content = FALSE,
               !.paragraph_links = <<>>]

end_paragraph(st) ==
    [st EXCEPT !.ui = IF st.paragraph_has_content
                      THEN @ \o <<IF st.in_blockquote
                                  THEN [block |-> "BlockQuote",
                                        job |-> st.current_paragraph]
                                  ELSE [block |-> "Paragraph",
                                        job |-> st.current_paragraph,
                                        links |-> st.paragraph_links],
                                 add_space(8)>>
                      ELSE @,
               !.current_paragraph = <<>>,
               !.paragraph_has_content = FALSE,
               !.paragraph_links = <<>>]

\* Event::Start(Tag::Heading { level, .. })
start_heading(st, level) ==
    [st EXCEPT !.current_element.is_heading = TRUE,
               !.current_element.heading_level = level,
               !.current_element.accumulated_text = <<>>]

\* Event::End(TagEnd::Heading(_))
end_heading(st, search_query_, scroll_to) ==
    LET text == st.current_element.accumulated_text
        r == render_heading(text, st.current_element.heading_level, search_query_)
    IN  IF text # <<>> /\ r.panic THEN [st EXCEPT !.panic = TRUE]
        ELSE [st EXCEPT !.ui = IF text # <<>>
                               THEN @ \o <<[block |-> "Heading",
                                            level |-> st.current_element.heading_level,
                                            text |-> text, job |-> r.job,
                                            should_scroll |-> scroll_to = Some(text)],
                                           add_space(12)>>
                               ELSE @,
                        !.current_element = DefaultElementState]

\* Event::Start(Tag::CodeBlock(kind))
start_code_block(st, lang) ==
    [st EXCEPT !.in_code_block = TRUE, !.code_block_content = <<>>,
               !.code_block_lang = lang]

\* Event::End(TagEnd::CodeBlock)
end_code_block(st) ==
    [st EXCEPT !.in_code_block = FALSE,
               !.ui = @ \o <<[block |-> "CodeBlock", content |-> st.code_block_content,
                              language |-> st.code_block_lang],
                             add_space(8)>>,
               !.code_block_content = <<>>]

\* Event::Code(text)
on_code(st, text, search_query_) ==
    IF st.current_element.is_heading
    THEN [st EXCEPT !.current_element.accumulated_text = @ \o text]
    ELSE LET r == append_inline_code(st.current_paragraph, text, search_query_)
         IN  IF r.panic THEN [st EXCEPT !.panic = TRUE]
             ELSE [st EXCEPT !.current_paragraph = r.job,
                             !.paragraph_has_content = TRUE]

\* Event::Text(text)
on_text_list_before_table(st, text, search_query_) ==
    IF st.in_code_block
    THEN [st EXCEPT !.code_block_content = @ \o text]
    ELSE IF st.current_element.is_heading
    THEN [st EXCEPT !.current_element.accumulated_text = @ \o text]
    ELSE IF st.list_stack # <<>>
    THEN [st EXCEPT !.current_list_item = @ \o text]
    ELSE IF st.in_table
    THEN [st EXCEPT !.current_table_cell = @ \o text]
    ELSE IF st.current_element.link_url # <<>>
            /\ st.current_element.accumulated_text = <<>>
    THEN [st EXCEPT !.current_element.accumulated_text = @ \o text]
    ELSE paragraph_append(st, text, search_query_, TRUE)

on_text(st, text, search_query_) ==
    IF st.in_code_block
    THEN [st EXCEPT !.code_block_content = @ \o text]
    ELSE IF st.current_element.is_heading
    THEN [st EXCEPT !.current_element.accumulated_text = @ \o text]
    ELSE IF st.in_table
    THEN [st EXCEPT !.current_table_cell = @ \o text]
    ELSE IF st.list_stack # <<>>
    THEN [st EXCEPT !.current_list_item = @ \o text]
    ELSE IF st.current_element.link_url # <<>>
            /\ st.current_element.accumulated_text = <<>>
    THEN [st EXCEPT !.current_element.accumulated_text = @ \o text]
    ELSE paragraph_append(st, text, search_query_, TRUE)

\* on_break keeping the line breaks of a code block in the code buffer
on_break_into_code(st, c, search_query_) ==
    IF st.in_code_block THEN [st EXCEPT !.code_block_content = Append(@, c)]
    ELSE IF st.current_element.is_heading
    THEN [st EXCEPT !.current_element.accumulated_text = Append(@, c)]
    ELSE IF st.list_stack # <<>>
    THEN [st EXCEPT !.current_list_item = Append(@, c)]
    ELSE paragraph_append(st, <<c>>, search_query_, FALSE)

\* on_break with the precedence of on_text: a break in a table cell goes to the
\* cell
on_break_like_text(st, c, search_query_) ==
    IF st.in_code_block THEN st
    ELSE IF st.current_element.is_heading
    THEN [st EXCEPT !.current_element.accumulated_text = Append(@, c)]
    ELSE IF st.in_table
    THEN [st EXCEPT !.current_table_cell = Append(@, c)]
    ELSE IF st.list_stack # <<>>
    THEN [st EXCEPT !.current_list_item = Append(@, c)]
    ELSE paragraph_append(st, <<c>>, search_query_, FALSE)

\* Event::SoftBreak (c = ' ') and Event::HardBreak (c = '\n')
on_break(st, c, search_query_) ==
    IF st.in_code_block THEN st
    ELSE IF st.current_element.is_heading
    THEN [st EXCEPT !.current_element.accumulated_text = Append(@, c)]
    ELSE IF st.list_stack # <<>>
    THEN [st EXCEPT !.current_list_item = Append(@, c)]
    ELSE paragraph_append(st, <<c>>, search_query_, FALSE)

\* Event::Start(Tag::List(start_number))
start_list(st, is_ordered) ==
    [st EXCEPT !.list_stack = Append(@, [is_ordered |-> is_ordered, items |-> <<>>]),
               !.current_nesting_level = Len(st.list_stack)]

\* end_list leaving the nesting level of the list it closes
end_list_keeps_level(st) ==
    IF st.list_stack = <<>>
    THEN st
    ELSE LET n == Len(st.list_stack)
             top == st.list_stack[n]
         IN  [st EXCEPT !.list_stack = SubSeq(@, 1, n - 1),
                        !.ui = @ \o <<render_nested_list(top.items, top.is_ordered),
                                      add_space(8)>>]

\* Event::End(TagEnd::List(_))
end_list(st) ==
    IF st.list_stack = <<>>
    THEN [st EXCEPT !.current_nesting_level = 0]
    ELSE LET n == Len(st.list_stack)
             top == st.list_stack[n]
         IN  [st EXCEPT !.list_stack = SubSeq(@, 1, n - 1),
                        !.ui = @ \o <<render_nested_list(top.items, top.is_ordered),
                                      add_space(8)>>,
                        !.current_nesting_level = IF n - 1 = 0 THEN 0 ELSE n - 2]

\* Event::Start(Tag::Item)
start_item(st) == [st EXCEPT !.current_list_item = <<>>]

\* Event::End(TagEnd::Item)
end_item_keeps_buffer(st) ==
    IF st.list_stack # <<>> /\ st.current_list_item # <<>>
    THEN [st EXCEPT !.list_stack[Len(st.list_stack)].items =
                        Append(@, <<st.current_list_item, st.current_nesting_level>>)]
    ELSE st

end_item(st) ==
    IF st.list_stack # <<>> /\ st.current_list_item # <<>>
    THEN [st EXCEPT !.list_stack[Len(st.list_stack)].items =
                        Append(@, <<st.current_list_item, st.current_nesting_level>>),
                    !.current_list_item = <<>>]
    ELSE st

\* end_table passing over a table without headers and rows
end_table_skips_empty(st) ==
    [st EXCEPT !.ui = IF st.in_table /\ ~(st.table_headers = <<>> /\ st.table_rows = <<>>)
                      THEN @ \o <<render_table(st.table_headers, st.table_rows),
                                  add_space(8)>>
                      ELSE @,
               !.in_table = FALSE]

\* Event::End(TagEnd::Table)
end_table(st) ==
    [st EXCEPT !.ui = IF st.in_table
                      THEN @ \o <<render_table(st.table_headers, st.table_rows),
                                  add_space(8)>>
                      ELSE @,
               !.in_table = FALSE]

\* end_table_head entering the head among the rows as well
end_table_head_as_row(st) ==
    IF st.in_table
    THEN [st EXCEPT !.table_headers = st.current_table_row,
                    !.table_rows = Append(@, st.current_table_row),
                    !.current_table_row = <<>>]
    ELSE st

\* Event::End(TagEnd::TableHead)
end_table_head(st) ==
    IF st.in_table
    THEN [st EXCEPT !.table_headers = st.current_table_row, !.current_table_row = <<>>]
    ELSE st

\* Event::End(TagEnd::TableRow)
end_table_row(st) ==
    IF st.in_table /\ st.current_table_row # <<>>
    THEN [st EXCEPT !.table_rows = Append(@, st.current_table_row),
                    !.current_table_row = <<>>]
    ELSE st

\* Event::End(TagEnd::TableCell)
end_table_cell(st) ==
    IF st.in_table
    THEN [st EXCEPT !.current_table_row = Append(@, st.current_table_cell),
                    !.current_table_cell = <<>>]
    ELSE st

\* Event::Start(Tag::Image { dest_url, .. })
start_image(st, dest_url) ==
    [st EXCEPT !.current_element.link_url = dest_url,
               !.current_element.accumulated_text = <<>>]

\* Event::End(TagEnd::Image)
end_image(st, world) ==
    LET url == st.current_element.link_url
        r == render_image(url, st.current_element.accumulated_text,
                          st.image_cache, world)
    IN  [st EXCEPT !.ui = @ \o <<r.block, add_space(8)>>,
                   !.image_cache = r.image_cache,
                   !.shown = Append(@, <<url, r.block.texture>>),
                   !.fetched = IF r.fetched THEN Append(@, <<url, r.block.texture>>) ELSE @,
                   !.current_element.link_url = <<>>,
                   !.current_element.accumulated_text = <<>>]

\* one turn of the loop of render_events; env is [search_query,
\* scroll_to_header, world]
render_event(st, event, env) ==
    IF event.ev = "Text" THEN on_text(st, event.text, env.search_query)
    ELSE IF event.ev = "Code" THEN on_code(st, event.text, env.search_query)
    ELSE IF event.ev = "SoftBreak" THEN on_break(st, 32, env.search_query)
    ELSE IF event.ev = "HardBreak" THEN on_break(st, 10, env.search_query)
    ELSE IF event.ev = "Rule"
    THEN [st EXCEPT !.ui = @ \o <<[block |-> "Rule"], add_space(8)>>]
    ELSE IF event.ev = "Start"
    THEN CASE event.tag = "Paragraph" -> start_paragraph(st)
           [] event.tag = "Heading" -> start_heading(st, event.level)
           [] event.tag = "CodeBlock" -> start_code_block(st, event.lang)
           [] event.tag = "Emphasis" -> [st EXCEPT !.current_element.is_emphasis = TRUE]
           [] event.tag = "Strong" -> [st EXCEPT !.current_element.is_strong = TRUE]
           [] event.tag = "BlockQuote" ->
                [st EXCEPT !.in_blockquote = TRUE,
                           !.current_element.is_blockquote = TRUE]
           [] event.tag = "Link" ->
                [st EXCEPT !.current_element.is_link = TRUE,
                           !.current_element.link_url = event.dest_url]
           [] event.tag = "List" -> start_list(st, event.is_ordered)
           [] event.tag = "Item" -> start_item(st)
           [] event.tag = "Table" ->
                [st EXCEPT !.in_table = TRUE, !.table_headers = <<>>,
                           !.table_rows = <<>>]
           [] event.tag \in {"TableHead", "TableRow"} ->
                [st EXCEPT !.current_table_row = <<>>]
           [] event.tag = "TableCell" -> [st EXCEPT !.current_table_cell = <<>>]
           [] event.tag = "Image" -> start_image(st, event.dest_url)
           [] OTHER -> st
    ELSE IF event.ev = "End"
    THEN CASE event.tag = "Paragraph" -> end_paragraph(st)
           [] event.tag = "Heading" ->
                end_heading(st, env.search_query, env.scroll_to_header)
           [] event.tag = "CodeBlock" -> end_code_block(st)
           [] event.tag = "Emphasis" -> [st EXCEPT !.current_element.is_emphasis = FALSE]
           [] event.tag = "Strong" -> [st EXCEPT !.current_element.is_strong = FALSE]
           [] event.tag = "BlockQuote" ->
                [st EXCEPT !.in_blockquote = FALSE,
                           !.current_element.is_blockquote = FALSE]
           [] event.tag = "Link" ->
                [st EXCEPT !.current_element.is_link = FALSE,
                           !.current_element.link_url = <<>>]
           [] event.tag = "List" -> end_list(st)
           [] event.tag = "Item" -> end_item(st)
           [] event.tag = "Table" -> end_table(st)
           [] event.tag = "TableHead" -> end_table_head(st)
           [] event.tag = "TableRow" -> end_table_row(st)
           [] event.tag = "TableCell" -> end_table_cell(st)
           [] event.tag = "Image" -> end_image(st, env.world)
           [] OTHER -> st
    ELSE st

\* for event in events: a panic unwinds out of the loop
RECURSIVE render_loop(_, _, _)
render_loop(st, events, env) ==
    IF events = <<>> \/ st.panic THEN st
    ELSE render_loop(render_event(st, Head(events), env), Tail(events), env)

\* render_events returning the target only when a heading of that text was
\* drawn
render_events_returns_found(events, search_query_, cache, scroll_to, world) ==
    LET st == render_loop(RenderState(cache), events,
                          [search_query |-> search_query_,
                           scroll_to_header |-> scroll_to, world |-> world])
    IN  [ret |-> IF \E i \in 1..Len(st.ui) :
                       st.ui[i].block = "Heading" /\ st.ui[i].should_scroll
                 THEN scroll_to ELSE None,
         st |-> st]

\* render_events: [ret, st]; ret is the Option<String> it returns, st the
\* compiler state after the last event
render_events(events, search_query_, cache, scroll_to, world) ==
    [ret |-> scroll_to,
     st |-> render_loop(RenderState(cache), events,
                        [search_query |-> search_query_,
                         scroll_to_header |-> scroll_to, world |-> world])]

\* render: parses the document and compiles its events
render(markdown, search_query_, cache, scroll_to, world) ==
    render_events(Parser(markdown), search_query_, cache, scroll_to, world)

-----------------------------------------------------------------------------
\* app.rs: the session

\* impl Default for MarkdownReaderApp
DefaultApp ==
    [content |-> <<>>, current_file |-> None, show_search |-> FALSE,
     search_query |-> <<>>, search_results |-> <<>>, current_search_index |-> 0,
     search_case_sensitive |-> FALSE, image_cache |-> EmptyMap, show_toc |-> FALSE,
     toc_headers |-> <<>>, scroll_to_header |-> None]

\* the session as one record
App ==
    [content |-> content, current_file |-> current_file, show_search |-> show_search,
     search_query |-> search_query, search_results |-> search_results,
     current_search_index |-> current_search_index,
     search_case_sensitive |-> search_case_sensitive, image_cache |-> image_cache,
     show_toc |-> show_toc, toc_headers |-> toc_headers,
     scroll_to_header |-> scroll_to_header]

IsApp(a) ==
    /\ content = a.content
    /\ current_file = a.current_file
    /\ show_search = a.show_search
    /\ search_query = a.search_query
    /\ search_results = a.search_results
    /\ current_search_index = a.current_search_index
    /\ search_case_sensitive = a.search_case_sensitive
    /\ image_cache = a.image_cache
    /\ show_toc = a.show_toc
    /\ toc_headers = a.toc_headers
    /\ scroll_to_header = a.scroll_to_header

\* the operation name, called with arg, turns the session into a and returns ret
Call(name, arg, ret, a) ==
    /\ content' = a.content
    /\ current_file' = a.current_file
    /\ show_search' = a.show_search
    /\ search_query' = a.search_query
    /\ search_results' = a.search_results
    /\ current_search_index' = a.current_search_index
    /\ search_case_sensitive' = a.search_case_sensitive
    /\ image_cache' = a.image_cache
    /\ show_toc' = a.show_toc
    /\ toc_headers' = a.toc_headers
    /\ scroll_to_header' = a.scroll_to_header
    /\ last_call' = name
    /\ last_arg' = arg
    /\ last_ret' = ret
    /\ pre' = App
    /\ update_pc' = IF name = "toc_clicked" THEN "central" ELSE "panels"
    /\ fetch_log' = IF name = "load_file" /\ ret = "Ok" THEN <<>>
                    ELSE IF name = "render" THEN fetch_log \o ret.fetched
                    ELSE fetch_log
    /\ UNCHANGED <<compVars, fragVars, imgVars>>

\* the queries typed into the search box
SessionQueries == {<<>>, <<98>>, <<97, 98>>}

\* show_search_bar: the text edit changed the query (app.rs:334-344)
search_text_changed(self, query) ==
    perform_search([self EXCEPT !.search_query = query])

\* show_search_bar: the close button (app.rs:390-393)
close_search(self) ==
    [self EXCEPT !.show_search = FALSE, !.search_results = <<>>]

\* show_toc_sidebar: the button of entry i was clicked (app.rs:588-590)
toc_clicked(self, i) ==
    [self EXCEPT !.scroll_to_header = Some(self.toc_headers[i].title)]

\* update: the render pass of the central panel (app.rs:504-527); r is what
\* render gave back
render_pass(self, r) ==
    [self EXCEPT !.image_cache = r.st.image_cache,
                 !.scroll_to_header = IF is_some(r.ret) THEN None ELSE @]

\* update() runs the menu bar, the file dialog, the search bar and the TOC
\* sidebar before the central panel (app.rs:456-568): after a TOC click only
\* the render pass is left of the frame
InPanels == update_pc = "panels"

LoadFile == \E path \in Paths :
    LET r == load_file(App, path)
    IN  InPanels /\ Call("load_file", path, r.ret, r.self)

PerformSearch == InPanels /\ Call("perform_search", "()", "()", perform_search(App))

NextSearchResult == InPanels /\ Call("next_search_result", "()", "()", next_search_result(App))

PreviousSearchResult ==
    InPanels /\ Call("previous_search_result", "()", "()", previous_search_result(App))

ToggleSearch ==
    InPanels /\ Call("toggle_search", "()", "()", [App EXCEPT !.show_search = ~@])

\* update hides the bar on Escape before show_search_bar is called, so the
\* bar's own Escape branch (app.rs:351-355) does not run
EscapeKey ==
    InPanels /\ Call("escape", "()", "()", [App EXCEPT !.show_search = FALSE])

EditQuery ==
    /\ InPanels
    /\ show_search
    /\ \E q \in SessionQueries \ {search_query} :
          Call("search_text_changed", q, "()", search_text_changed(App, q))

ToggleCaseSensitive ==
    /\ InPanels
    /\ show_search
    /\ Call("toggle_case", "()", "()", [App EXCEPT !.search_case_sensitive = ~@])

CloseSearch ==
    /\ InPanels
    /\ show_search
    /\ Call("close_search", "()", "()", close_search(App))

ToggleToc ==
    InPanels /\ Call("toggle_toc", "()", "()", [App EXCEPT !.show_toc = ~@])

TocClick ==
    /\ InPanels
    /\ show_toc
    /\ toc_headers # <<>>
    /\ \E i \in 1..Len(toc_headers) : Call("toc_clicked", i, "()", toc_clicked(App, i))

RenderPass ==
    /\ is_some(current_file)
    /\ \E world \in [ImageUrls -> {"Ok", "Err"}] :
          LET r == render(content, search_query, image_cache, scroll_to_header, world)
          IN  Call("render", world,
                   [ret |-> r.ret, ui |-> r.st.ui, shown |-> r.st.shown,
                    fetched |-> r.st.fetched, panic |-> r.st.panic],
                   render_pass(App, r))

CompIdle ==
    /\ comp_query = <<>>
    /\ comp_scroll = None
    /\ comp_world = <<>>
    /\ comp_input = [on |-> FALSE, free |-> FALSE, rest |-> <<>>]
    /\ comp_open = <<>>
    /\ comp_fed = <<>>
    /\ comp_pre = <<>>
    /\ comp_st = <<>>
    /\ comp_toc = <<>>

FragIdle ==
    /\ frag_text = <<>>
    /\ frag_query = <<>>
    /\ frag_case = FALSE
    /\ frag_element = <<>>
    /\ frag_pc = "idle"
    /\ frag_out = <<>>

ImgIdle ==
    /\ img_url = <<>>
    /\ img_file = None
    /\ img_pc = "idle"
    /\ img_out = <<>>

Init ==
    /\ IsApp(DefaultApp)
    /\ last_call = "new"
    /\ last_arg = "()"
    /\ last_ret = "()"
    /\ pre = DefaultApp
    /\ update_pc = "panels"
    /\ fetch_log = <<>>
    /\ CompIdle
    /\ FragIdle
    /\ ImgIdle

Next ==
    \/ LoadFile
    \/ PerformSearch
    \/ NextSearchResult
    \/ PreviousSearchResult
    \/ ToggleSearch
    \/ EscapeKey
    \/ EditQuery
    \/ ToggleCaseSensitive
    \/ CloseSearch
    \/ ToggleToc
    \/ TocClick
    \/ RenderPass

Spec == Init /\ [][Next]_vars

-----------------------------------------------------------------------------
\* The search and highlight functions on one fragment: any text and any query
\* within the bounds, each function applied once

\* "a", "A", U+0130 (lower-cases to three bytes), U+212A (to one byte), "\n"
FragChars == {<<97>>, <<65>>, <<196, 176>>, <<226, 132, 170>>, <<10>>}

\* a single-line text edit holds no line break
QueryChars == FragChars \ {<<10>>}

\* "Hello World"
HelloWorld == <<72, 101, 108, 108, 111, 32, 87, 111, 114, 108, 100>>
\* "wor"
Wor == <<119, 111, 114>>

FragTexts == Strings(FragChars, MaxTextLen) \cup {HelloWorld, <<97, 97, 97>>}
FragQueries == Strings(QueryChars, MaxQueryLen) \cup {Wor, <<97, 97>>}

\* ElementState, the fields append_text reads
Element(is_strong, is_emphasis, is_link, link_url) ==
    [is_strong |-> is_strong, is_emphasis |-> is_emphasis, is_link |-> is_link,
     link_url |-> link_url]

FragElements ==
    {Element(FALSE, FALSE, FALSE, <<>>), Element(TRUE, TRUE, FALSE, <<>>),
     Element(FALSE, FALSE, TRUE, <<112>>)}

FragLevels == {1, 6}

FragStep(pc, element, out) ==
    /\ frag_pc = "input"
    /\ frag_pc' = pc
    /\ frag_element' = element
    /\ frag_out' = out
    /\ UNCHANGED <<frag_text, frag_query, frag_case, appVars, histVars, compVars, imgVars>>

\* the session perform_search runs in: frag_text is the document
FragApp ==
    [DefaultApp EXCEPT !.content = frag_text, !.search_query = frag_query,
                       !.search_case_sensitive = frag_case]

FragPerformSearch ==
    FragStep("perform_search", <<>>, perform_search(FragApp))

FragAppendText == \E element \in FragElements :
    FragStep("append_text", element,
             append_text(<<>>, frag_text, element, frag_query))

FragRenderHeading == \E level \in FragLevels :
    FragStep("render_heading", level, render_heading(frag_text, level, frag_query))

FragAppendInlineCode ==
    FragStep("append_inline_code", <<>>,
             append_inline_code(<<>>, frag_text, frag_query))

FragInit ==
    /\ IsApp(DefaultApp)
    /\ last_call = "new"
    /\ last_arg = "()"
    /\ last_ret = "()"
    /\ pre = DefaultApp
    /\ update_pc = "panels"
    /\ fetch_log = <<>>
    /\ CompIdle
    /\ ImgIdle
    /\ frag_text \in FragTexts
    /\ frag_query \in FragQueries
    /\ frag_case \in BOOLEAN
    /\ frag_element = <<>>
    /\ frag_pc = "input"
    /\ frag_out = <<>>

FragNext ==
    \/ FragPerformSearch
    \/ FragAppendText
    \/ FragRenderHeading
    \/ FragAppendInlineCode

FragSpec == FragInit /\ [][FragNext]_vars

-----------------------------------------------------------------------------
\* try_load_image on one reference: any of the references and current files
\* below

\* "http://a", "https://a", "http://", "https://", "http:/a", "https:/a",
\* "HTTP://a", "ahttp://a", "http", "a", "b/a", "/a", "//a", ""
ImageRefs ==
    {HttpPrefix \o <<97>>, HttpsPrefix \o <<97>>, HttpPrefix, HttpsPrefix,
     <<104, 116, 116, 112, 58, 47, 97>>, <<104, 116, 116, 112, 115, 58, 47, 97>>,
     <<72, 84, 84, 80, 58, 47, 47, 97>>, <<97>> \o HttpPrefix \o <<97>>,
     <<104, 116, 116, 112>>, <<97>>, <<98, 47, 97>>, <<47, 97>>, <<47, 47, 97>>, <<>>}

\* no document, "a.md", "d/a.md", "d/e/a.md", "/a.md", "/d/a.md", "./a.md"
DocumentPaths ==
    {None, Some(<<97, 46, 109, 100>>), Some(<<100, 47, 97, 46, 109, 100>>),
     Some(<<100, 47, 101, 47, 97, 46, 109, 100>>), Some(<<47, 97, 46, 109, 100>>),
     Some(<<47, 100, 47, 97, 46, 109, 100>>),
     Some(<<46, 47, 97, 46, 109, 100>>)}

TryLoadImage ==
    /\ img_pc = "input"
    /\ img_pc' = "try_load_image"
    /\ img_out' = try_load_image(img_url, img_file)
    /\ UNCHANGED <<img_url, img_file, appVars, histVars, compVars, fragVars>>

ImgInit ==
    /\ IsApp(DefaultApp)
    /\ last_call = "new"
    /\ last_arg = "()"
    /\ last_ret = "()"
    /\ pre = DefaultApp
    /\ update_pc = "panels"
    /\ fetch_log = <<>>
    /\ CompIdle
    /\ FragIdle
    /\ img_url \in ImageRefs
    /\ img_file \in DocumentPaths
    /\ img_pc = "input"
    /\ img_out = <<>>

ImgSpec == ImgInit /\ [][TryLoadImage]_vars

-----------------------------------------------------------------------------
\* The compiler fed event by event: any event sequence the parser's nesting
\* admits, up to MaxEvents events, and the events of sample documents

\* "a" and " "
CompTexts == {<<97>>, <<32>>}
CompQueries == {<<>>, <<97>>}
CompLevels == {1, 2}
\* "# Title\n\nHello **world**\n\n- a\n  - b\n"
NestedListEvents ==
    <<StartList(FALSE), Start("Item"), Text(<<97>>),
      StartList(FALSE), Start("Item"), Text(<<98>>), End("Item"), End("List"),
      End("Item"), End("List")>>

ExampleDocument ==
    <<StartHeading(1), Text(<<84, 105, 116, 108, 101>>), End("Heading"),
      Start("Paragraph"), Text(<<72, 101, 108, 108, 111, 32>>), Start("Strong"),
      Text(<<119, 111, 114, 108, 100>>), End("Strong"), End("Paragraph")>>
    \o NestedListEvents

\* "|h|\n|-|\n|c|\n"
TableDocument ==
    <<Start("Table"), Start("TableHead"), Start("TableCell"), Text(<<104>>),
      End("TableCell"), End("TableHead"), Start("TableRow"), Start("TableCell"),
      Text(<<99>>), End("TableCell"), End("TableRow"), End("Table")>>

\* "![[a](q)](p)\n\n> a\\\n> `a`\n\n---\n"
ImageDocument ==
    <<Start("Paragraph"), StartImage(<<112>>), StartLink(<<113>>), Text(<<97>>),
      End("Link"), End("Image"), End("Paragraph"),
      Start("BlockQuote"), Start("Paragraph"), Text(<<97>>), HardBreak,
      Code(<<97>>), End("Paragraph"), End("BlockQuote"), Rule>>

\* "- |h|\n  |-|\n"
ListTableDocument ==
    <<StartList(FALSE), Start("Item"), Start("Table"), Start("TableHead"),
      Start("TableCell"), Text(<<104>>), End("TableCell"), End("TableHead"),
      End("Table"), End("Item"), End("List")>>

\* "- a\n  - a\n- a\n"
TwoLevelListDocument ==
    <<StartList(FALSE), Start("Item"), Text(<<97>>), StartList(FALSE), Start("Item"),
      Text(<<97>>), End("Item"), End("List"), End("Item"), Start("Item"), Text(<<97>>),
      End("Item"), End("List")>>

\* "> > a\n>\n> a\n"
NestedQuoteDocument ==
    <<Start("BlockQuote"), Start("BlockQuote"), Start("Paragraph"), Text(<<97>>),
      End("Paragraph"), End("BlockQuote"), Start("Paragraph"), Text(<<97>>),
      End("Paragraph"), End("BlockQuote")>>

\* "|h|\n|-|\n|c|\n\n|a|\n|-|\n"
TwoTablesDocument ==
    TableDocument
    \o <<Start("Table"), Start("TableHead"), Start("TableCell"), Text(<<97>>),
         End("TableCell"), End("TableHead"), End("Table")>>

SampleDocuments ==
    {NestedListEvents, ExampleDocument, TableDocument, ImageDocument, ListTableDocument,
     TwoLevelListDocument, NestedQuoteDocument, TwoTablesDocument}

BlockStarts ==
    {Start("Paragraph"), Start("BlockQuote"), Start("Table"), StartCodeBlock(<<>>), Rule}
    \cup {StartHeading(level) : level \in CompLevels}
    \cup {StartList(is_ordered) : is_ordered \in BOOLEAN}

InlineEvents ==
    {Text(t) : t \in CompTexts}
    \cup {Code(<<97>>), SoftBreak, HardBreak, Start("Emphasis"), Start("Strong"),
          StartLink(<<113>>), StartImage(<<112>>)}

\* the events pulldown-cmark can emit next, given the open tags (innermost
\* last) and the event before; with them the two sequences render_events
\* guards against although the parser does not emit them: a table closed
\* without a head (render_table returns at once for it) and a break inside a
\* code block (the break arms test in_code_block)
Admitted(open, fed) ==
    LET top == IF open = <<>> THEN "Document" ELSE open[Len(open)]
        last == IF fed = <<>> THEN Rule ELSE fed[Len(fed)]
        just_opened == fed # <<>> /\ last.ev = "Start"
        starts ==
            CASE top \in {"Document", "BlockQuote"} -> BlockStarts
              [] top = "Item" -> BlockStarts \cup InlineEvents
              [] top \in {"Paragraph", "Heading", "Emphasis", "Strong", "Link",
                          "Image", "TableCell"} -> InlineEvents
              [] top = "List" -> {Start("Item")}
              [] top = "Table" -> IF just_opened THEN {Start("TableHead")}
                                  ELSE {Start("TableRow")}
              [] top \in {"TableHead", "TableRow"} -> {Start("TableCell")}
              [] top = "CodeBlock" -> {Text(t) : t \in CompTexts} \cup {SoftBreak, HardBreak}
              [] OTHER -> {}
        \* inline tags do not nest in themselves; a paragraph, a list, a table
        \* head and a table row are closed only after something was in them
        nested == {e \in starts : e.ev = "Start" /\ e.tag \notin {"List", "Item", "BlockQuote"}
                                   /\ \E i \in 1..Len(open) : open[i] = e.tag}
        closes == IF open = <<>> \/ (just_opened /\ top \in {"Paragraph", "List",
                                                           "TableHead", "TableRow"})
                  THEN {} ELSE {End(top)}
    IN  (starts \ nested) \cup closes

\* the environment of the pass
CompEnv(world) ==
    [search_query |-> comp_query, scroll_to_header |-> comp_scroll, world |-> world]

\* generate_toc's loop before the first event
TocState == [current_header |-> None, line_number |-> 0, toc_headers |-> <<>>]

\* the event e is next: both loops take it
Feed(e, world) ==
    /\ comp_input.on
    /\ ~comp_st.panic
    /\ IF comp_input.free
       THEN Len(comp_fed) < MaxEvents /\ e \in Admitted(comp_open, comp_fed)
       ELSE comp_input.rest # <<>> /\ e = Head(comp_input.rest)
    /\ comp_input' = IF comp_input.free THEN comp_input
                     ELSE [comp_input EXCEPT !.rest = Tail(@)]
    /\ comp_open' = IF e.ev = "Start" THEN Append(comp_open, e.tag)
                    ELSE IF e.ev = "End" THEN SubSeq(comp_open, 1, Len(comp_open) - 1)
                    ELSE comp_open
    /\ comp_fed' = Append(comp_fed, e)
    /\ comp_pre' = comp_st
    /\ comp_st' = render_event(comp_st, e, CompEnv(world))
    /\ comp_toc' = toc_event(comp_toc, e)
    /\ comp_world' = world
    /\ UNCHANGED <<comp_query, comp_scroll, appVars, histVars, fragVars, imgVars>>

NoWorld == [url \in {} |-> "Err"]

\* one action for each tag and each leaf event of the match in render_events
OnParagraph == Feed(Start("Paragraph"), NoWorld) \/ Feed(End("Paragraph"), NoWorld)
OnHeading ==
    \/ \E level \in CompLevels : Feed(StartHeading(level), NoWorld)
    \/ Feed(End("Heading"), NoWorld)
OnCodeBlock == Feed(StartCodeBlock(<<>>), NoWorld) \/ Feed(End("CodeBlock"), NoWorld)
OnEmphasis == Feed(Start("Emphasis"), NoWorld) \/ Feed(End("Emphasis"), NoWorld)
OnStrong == Feed(Start("Strong"), NoWorld) \/ Feed(End("Strong"), NoWorld)
OnCode == Feed(Code(<<97>>), NoWorld)
\* the texts of the free sequences and those of the sample documents
OnText == \E e \in {Text(t) : t \in CompTexts}
                   \cup UNION {{d[i] : i \in DOMAIN d} : d \in SampleDocuments} :
    e.ev = "Text" /\ Feed(e, NoWorld)
OnSoftBreak == Feed(SoftBreak, NoWorld)
OnHardBreak == Feed(HardBreak, NoWorld)
OnBlockQuote == Feed(Start("BlockQuote"), NoWorld) \/ Feed(End("BlockQuote"), NoWorld)
OnLink == Feed(StartLink(<<113>>), NoWorld) \/ Feed(End("Link"), NoWorld)
OnList ==
    \/ \E is_ordered \in BOOLEAN : Feed(StartList(is_ordered), NoWorld)
    \/ Feed(End("List"), NoWorld)
OnItem == Feed(Start("Item"), NoWorld) \/ Feed(End("Item"), NoWorld)
OnTable == Feed(Start("Table"), NoWorld) \/ Feed(End("Table"), NoWorld)
OnTableHead == Feed(Start("TableHead"), NoWorld) \/ Feed(End("TableHead"), NoWorld)
OnTableRow == Feed(Start("TableRow"), NoWorld) \/ Feed(End("TableRow"), NoWorld)
OnTableCell == Feed(Start("TableCell"), NoWorld) \/ Feed(End("TableCell"), NoWorld)
\* try_load_image answers as the file system and the network stand at the close
OnImage ==
    \/ Feed(StartImage(<<112>>), NoWorld)
    \/ \E world \in [ImageUrls -> {"Ok", "Err"}] : Feed(End("Image"), world)
OnRule == Feed(Rule, NoWorld)

CompInit ==
    /\ IsApp(DefaultApp)
    /\ last_call = "new"
    /\ last_arg = "()"
    /\ last_ret = "()"
    /\ pre = DefaultApp
    /\ update_pc = "panels"
    /\ fetch_log = <<>>
    /\ FragIdle
    /\ ImgIdle
    /\ comp_query \in CompQueries
    /\ comp_scroll = Some(<<97>>)
    /\ comp_world = NoWorld
    /\ comp_input \in {[on |-> TRUE, free |-> TRUE, rest |-> <<>>]}
                      \cup {[on |-> TRUE, free |-> FALSE, rest |-> d] :
                            d \in SampleDocuments}
    /\ comp_open = <<>>
    /\ comp_fed = <<>>
    /\ comp_pre = RenderState(EmptyMap)
    /\ comp_st = RenderState(EmptyMap)
    /\ comp_toc = TocState

CompNext ==
    \/ OnParagraph
    \/ OnHeading
    \/ OnCodeBlock
    \/ OnEmphasis
    \/ OnStrong
    \/ OnCode
    \/ OnText
    \/ OnSoftBreak
    \/ OnHardBreak
    \/ OnBlockQuote
    \/ OnLink
    \/ OnList
    \/ OnItem
    \/ OnTable
    \/ OnTableHead
    \/ OnTableRow
    \/ OnTableCell
    \/ OnImage
    \/ OnRule

CompileSpec == CompInit /\ [][CompNext]_vars

-----------------------------------------------------------------------------
\* Properties of the session (Spec)

\* C1: with n > 0 results, next_search_result moves the cursor from n-1 to 0
\* and from any other value up by one; previous_search_result moves it from 0
\* to n-1 and from any other value down by one.
C1_NavigationIsCircular ==
    LET n == Len(pre.search_results)
        i == pre.current_search_index
    IN  /\ (last_call = "next_search_result" /\ n > 0) =>
              current_search_index = IF i = n - 1 THEN 0 ELSE i + 1
        /\ (last_call = "previous_search_result" /\ n > 0) =>
              current_search_index = IF i = 0 THEN n - 1 ELSE i - 1

\* next_search_result has just wrapped from the last of several results to 0
C1_Witness ==
    /\ last_call = "next_search_result"
    /\ Len(pre.search_results) >= 2
    /\ pre.current_search_index = Len(pre.search_results) - 1
    /\ current_search_index = 0

\* C2: with no results, next_search_result and previous_search_result return
\* normally and leave the cursor, and the rest of the session, as they were.
C2_NavigationOnEmptyIsNoOp ==
    (/\ last_call \in {"next_search_result", "previous_search_result"}
     /\ pre.search_results = <<>>) =>
        /\ current_search_index = pre.current_search_index
        /\ last_ret = "()"
        /\ App = pre

\* previous_search_result was called with no results and a cursor that is not 0
C2_Witness ==
    /\ last_call = "previous_search_result"
    /\ pre.search_results = <<>>
    /\ pre.current_search_index > 0
    /\ current_search_index = pre.current_search_index

\* the titles of a table of contents
Titles(toc) == [i \in 1..Len(toc) |-> toc[i].title]

\* C3: after a load_file that returned Ok the image cache has no entry, there
\* are no search results, the cursor is 0 and the TOC is the extraction from the
\* loaded content alone.
C3_LoadResetsDerivedState ==
    (last_call = "load_file" /\ last_ret = "Ok") =>
        /\ content = read_to_string(last_arg)[1]
        /\ DOMAIN image_cache = {}
        /\ search_results = <<>>
        /\ current_search_index = 0
        /\ toc_headers = generate_toc([DefaultApp EXCEPT !.content = content]).toc_headers
        /\ Titles(toc_headers) =
              IF content = TextA THEN <<<<65, 98>>>>
              ELSE IF content = TextB THEN <<<<98>>>>
              ELSE <<<<97, 98>>>>

\* a load replaced a document that had cached images, search results, a cursor
\* past 0 and a TOC of its own
C3_Witness ==
    /\ last_call = "load_file"
    /\ last_ret = "Ok"
    /\ DOMAIN pre.image_cache # {}
    /\ pre.search_results # <<>>
    /\ pre.current_search_index > 0
    /\ pre.toc_headers # <<>>
    /\ pre.content # content

\* C4: a load_file whose document cannot be read returns Err and leaves
\* content, current_file, image cache, search results, cursor, TOC and scroll
\* target as they were.
C4_FailedLoadChangesNothing ==
    (last_call = "load_file" /\ read_to_string(last_arg) = None) =>
        /\ last_ret = "Err"
        /\ content = pre.content
        /\ current_file = pre.current_file
        /\ image_cache = pre.image_cache
        /\ search_results = pre.search_results
        /\ current_search_index = pre.current_search_index
        /\ toc_headers = pre.toc_headers
        /\ scroll_to_header = pre.scroll_to_header

\* a load failed while a document with cached images, results, a cursor past 0
\* and a TOC was open (a scroll target is never pending when a load runs: the
\* render pass of the frame of the click has consumed it)
C4_Witness ==
    /\ last_call = "load_file"
    /\ last_ret = "Err"
    /\ is_some(pre.current_file)
    /\ DOMAIN pre.image_cache # {}
    /\ pre.search_results # <<>>
    /\ pre.current_search_index > 0
    /\ pre.toc_headers # <<>>
    /\ pre.current_file # Some("b.md")

\* C8: perform_search with an empty query leaves no results and the cursor 0.
C8_EmptyQueryClearsResults ==
    (/\ last_call \in {"perform_search", "search_text_changed"}
     /\ search_query = <<>>) =>
        /\ search_results = <<>>
        /\ current_search_index = 0

\* the query was emptied while there were results and the cursor was past 0
C8_Witness ==
    /\ last_call = "search_text_changed"
    /\ search_query = <<>>
    /\ pre.search_results # <<>>
    /\ pre.current_search_index > 0
    /\ search_results = <<>>

-----------------------------------------------------------------------------
\* Properties of the search and highlight functions (FragSpec)

Searched == frag_pc = "perform_search"
Highlighted == frag_pc \in {"append_text", "render_heading", "append_inline_code"}

\* the query and a line as perform_search compares them in the mode frag_case
Folded(s) == IF frag_case THEN s ELSE to_lowercase(s)

\* whether q occurs in l at byte offset p
OccursAt(l, q, p) == p + Len(q) <= Len(l) /\ SubSeq(l, p + 1, p + Len(q)) = q

\* C5: every result's [match_start, match_end) lies within its line_content
\* and that slice of line_content equals the query, exactly in case-sensitive
\* mode and up to case otherwise.
C5_ResultSliceIsQuery ==
    (Searched /\ frag_query # <<>>) =>
        \A i \in 1..Len(frag_out.search_results) :
            LET r == frag_out.search_results[i]
            IN  /\ r.match_end <= Len(r.line_content)
                /\ slice_ok(r.line_content, r.match_start, r.match_end)
                /\ Folded(slice(r.line_content, r.match_start, r.match_end))
                      = Folded(frag_query)

\* the text of all sections of a job, in order
JobText(job) == concat([i \in 1..Len(job) |-> job[i].text])

\* C6: for a non-empty query the runs appended by the splitting of paragraph
\* text, heading text and inline code, concatenated in order, are the text.
C6_SplitIsLossless ==
    (Highlighted /\ frag_query # <<>>) =>
        /\ ~frag_out.panic
        /\ JobText(frag_out.job) = frag_text

\* C7: the results are the leftmost non-overlapping occurrences of the query in
\* each line, in line order and left to right, the scan resuming at match_end;
\* no match spans two lines; "aa" over "aaa" gives one result; "wor",
\* case-insensitive, over "Hello World" gives the one result [6, 9).
C7_GreedyLeftmostNonOverlapping ==
    (Searched /\ frag_query # <<>>) =>
        LET rs == frag_out.search_results
            ls == lines(frag_text)
            q == Folded(frag_query)
            \* where the scan stood when it found result i
            from(i) == IF i > 1 /\ rs[i - 1].line_number = rs[i].line_number
                       THEN rs[i - 1].match_end ELSE 0
            \* where the scan of line n stopped
            stop(n) == LET on == {i \in 1..Len(rs) : rs[i].line_number = n - 1}
                       IN  IF on = {} THEN 0
                           ELSE rs[CHOOSE i \in on : \A j \in on : j <= i].match_end
        IN  /\ \A i \in 1..Len(rs) :
                 /\ rs[i].line_number \in 0..(Len(ls) - 1)
                 /\ rs[i].line_content = ls[rs[i].line_number + 1]
                 /\ \A k \in 1..Len(rs[i].line_content) : rs[i].line_content[k] # 10
                 /\ rs[i].match_end = rs[i].match_start + Len(q)
                 /\ OccursAt(Folded(rs[i].line_content), q, rs[i].match_start)
                 /\ rs[i].match_start >= from(i)
                 /\ \A p \in from(i)..(rs[i].match_start - 1) :
                       ~OccursAt(Folded(rs[i].line_content), q, p)
            /\ \A i \in 1..(Len(rs) - 1) :
                 rs[i].line_number <= rs[i + 1].line_number
            /\ \A n \in 1..Len(ls) :
                 \A p \in stop(n)..Len(Folded(ls[n])) : ~OccursAt(Folded(ls[n]), q, p)
            /\ (frag_text = <<97, 97, 97>> /\ frag_query = <<97, 97>>) => Len(rs) = 1
            /\ (frag_text = HelloWorld /\ frag_query = Wor /\ ~frag_case) =>
                  rs = <<[line_number |-> 0, line_content |-> HelloWorld,
                          match_start |-> 6, match_end |-> 9]>>

\* "aa" was searched in "aaa": the one result is [0, 2)
C7_Witness ==
    /\ Searched
    /\ frag_text = <<97, 97, 97>>
    /\ frag_query = <<97, 97>>
    /\ Len(frag_out.search_results) = 1
    /\ frag_out.search_results[1].match_end = 2

\* C9: with an empty query a text, an inline-code and a heading fragment each
\* give exactly one run, the whole fragment, without the highlight colours.
C9_EmptyQueryOneRun ==
    (Highlighted /\ frag_query = <<>>) =>
        /\ ~frag_out.panic
        /\ Len(frag_out.job) = 1
        /\ frag_out.job[1].text = frag_text
        /\ frag_out.job[1].format.color # "warn_fg_color"
        /\ frag_out.job[1].format.background # "selection.bg_fill"

\* link text was appended with an empty query
C9_Witness ==
    /\ frag_pc = "append_text"
    /\ frag_query = <<>>
    /\ frag_text # <<>>
    /\ frag_element.is_link
    /\ Len(frag_out.job) = 1

\* the [start, end) byte spans of the highlighted runs of a job
RECURSIVE HighlightSpans(_, _)
HighlightSpans(job, offset) ==
    IF job = <<>> THEN <<>>
    ELSE LET end == offset + Len(Head(job).text)
         IN  (IF Head(job).format.color = "warn_fg_color"
              THEN <<<<offset, end>>>> ELSE <<>>)
             \o HighlightSpans(Tail(job), end)

\* the [match_start, match_end) spans perform_search reports for frag_text
SearchSpans ==
    LET rs == perform_search(FragApp).search_results
    IN  [i \in 1..Len(rs) |-> <<rs[i].match_start, rs[i].match_end>>]

IsOneLine(s) == \A k \in 1..Len(s) : s[k] # 10

\* C10: for a non-empty query and either mode, the highlighted spans of a
\* fragment are the spans perform_search reports for the same text as one line.
C10_HighlightMatchesSearch ==
    (Highlighted /\ frag_query # <<>> /\ IsOneLine(frag_text)) =>
        /\ ~frag_out.panic
        /\ HighlightSpans(frag_out.job, 0) = SearchSpans

-----------------------------------------------------------------------------
\* Properties of the compiler (CompileSpec)

\* the output blocks drawn so far, the spacing between them left out
Blocks(ui) == SelectSeq(ui, LAMBDA b : b.block # "Space")

\* C11: once the events of an unordered list whose item "a" contains a nested
\* unordered list with item "b" are compiled, the output holds the block
\* List(unordered, [("a", 0), ("b", 1)]).
C11_NestedListBlock ==
    comp_fed = NestedListEvents =>
        \E i \in 1..Len(comp_st.ui) :
            comp_st.ui[i] = [block |-> "List", ordered |-> FALSE,
                             items |-> <<<<(<<97>>), 0>>, <<(<<98>>), 1>>>>]

-----------------------------------------------------------------------------
\* Properties of the render pass in the session (Spec)

\* C12: between two document loads try_load_image runs at most once for each
\* distinct reference, whether it succeeded or failed, and every load_image
\* call of a pass returns what that one attempt returned.
C12_OneAttemptPerReference ==
    /\ \A i, j \in 1..Len(fetch_log) :
          fetch_log[i][1] = fetch_log[j][1] => i = j
    /\ last_call = "render" =>
          \A k \in 1..Len(last_ret.shown) :
             \E i \in 1..Len(fetch_log) : fetch_log[i] = last_ret.shown[k]

\* a pass over the document with the same image twice, after a pass in which
\* the image could not be loaded: the image could be loaded now, but both
\* calls answer from the cache
C12_Witness ==
    /\ last_call = "render"
    /\ Len(last_ret.shown) = 2
    /\ last_ret.fetched = <<>>
    /\ last_arg[<<112>>] = "Ok"
    /\ fetch_log = <<<<(<<112>>), None>>>>

\* C14: a render pass clears a pending scroll target only if it drew a heading
\* whose text equals the target; a pass in which no heading matches leaves the
\* target pending.
C14_TargetClearedOnlyOnMatch ==
    (last_call = "render" /\ is_some(pre.scroll_to_header)) =>
        LET matched == \E i \in 1..Len(last_ret.ui) :
                          /\ last_ret.ui[i].block = "Heading"
                          /\ last_ret.ui[i].text = pre.scroll_to_header[1]
        IN  /\ scroll_to_header = None => matched
            /\ ~matched => scroll_to_header = pre.scroll_to_header

-----------------------------------------------------------------------------
\* Properties of the compiler, event by event (CompileSpec)

\* the last event fed (Rule before the first)
LastEvent == IF comp_fed = <<>> THEN Rule ELSE comp_fed[Len(comp_fed)]
Fed(e) == comp_fed # <<>> /\ LastEvent = e

\* what the last event added to the output
Drawn == SubSeq(comp_st.ui, Len(comp_pre.ui) + 1, Len(comp_st.ui))

\* the reference of the image-open that the image-close just fed matches
OpenedReference ==
    LET opens == {i \in 1..Len(comp_fed) : comp_fed[i].ev = "Start"
                                             /\ comp_fed[i].tag = "Image"}
    IN  comp_fed[CHOOSE i \in opens : \A j \in opens : j <= i].dest_url

\* whether sub occurs in s
Contains(s, sub) == \E p \in 0..Len(s) : OccursAt(s, sub, p)

\* C13: an image-close whose image could not be loaded still draws one block,
\* a placeholder with the literal reference string in it, and the pass goes on.
C13_FailedImageGivesPlaceholder ==
    (Fed(End("Image")) /\ comp_st.shown[Len(comp_st.shown)][2] = None) =>
        /\ Len(Blocks(Drawn)) = 1
        /\ Drawn[1].block = "Image"
        /\ Drawn[1].texture = None
        /\ \E k \in 1..Len(Drawn[1].labels) :
              Contains(Drawn[1].labels[k], OpenedReference)
        /\ ~comp_st.panic


\* the text and inline-code events of events[i+1..j-1], concatenated
RECURSIVE TextBetween(_, _, _)
TextBetween(events, i, j) ==
    IF i + 1 >= j THEN <<>>
    ELSE TextBetween(events, i, j - 1)
         \o (IF events[j - 1].ev \in {"Text", "Code"} THEN events[j - 1].text ELSE <<>>)

IsHeadingOpen(e) == e.ev = "Start" /\ e.tag = "Heading"
IsHeadingClose(e) == e.ev = "End" /\ e.tag = "Heading"

\* the headings of the first n events, in document order: <<level, title>> of
\* each closed heading whose title trims non-empty
RECURSIVE HeadingsOf(_, _)
HeadingsOf(events, n) ==
    IF n = 0 THEN <<>>
    ELSE HeadingsOf(events, n - 1)
         \o (IF IsHeadingClose(events[n]) /\ \E i \in 1..n : IsHeadingOpen(events[i])
             THEN LET i == CHOOSE i \in 1..n :
                              /\ IsHeadingOpen(events[i])
                              /\ \A k \in (i + 1)..n : ~IsHeadingOpen(events[k])
                      title == TextBetween(events, i, n)
                  IN  IF trim(title) # <<>>
                      THEN <<<<events[i].level, trim(title)>>>> ELSE <<>>
             ELSE <<>>)

\* <<level, title>> of the entries of a table of contents
Entries(headers) == [i \in 1..Len(headers) |-> <<headers[i].level, headers[i].title>>]

IsBreak(e) == e.ev \in {"SoftBreak", "HardBreak"}

\* C15: the entries of generate_toc are, in document order, one (level in
\* 1..6, trimmed title) for each heading whose text and inline-code events
\* concatenate to a title that trims non-empty, and none for any other heading;
\* without the break events the same headings with the same titles come out.
C15_TocIsTheHeadings ==
    /\ Entries(comp_toc.toc_headers) = HeadingsOf(comp_fed, Len(comp_fed))
    /\ \A i \in 1..Len(comp_toc.toc_headers) : comp_toc.toc_headers[i].level \in 1..6
    /\ Entries(toc_loop(TocState, SelectSeq(comp_fed, LAMBDA e : ~IsBreak(e))).toc_headers)
          = Entries(comp_toc.toc_headers)

\* a heading of a text, a break and a blank was closed and entered with its
\* title trimmed
C15_Witness ==
    /\ Fed(End("Heading"))
    /\ \E i \in 1..Len(comp_fed) : IsBreak(comp_fed[i])
    /\ \E i \in 1..Len(comp_fed) : comp_fed[i] = Text(<<32>>)
    /\ Len(comp_toc.toc_headers) = 1
    /\ comp_toc.toc_headers[1].title = <<97>>


\* the Block a drawn widget stands for: what was drawn, without the scroll
\* request of a heading and without the outcome of an image's load
BlockOf(w) ==
    IF w.block = "Heading" THEN [block |-> "Heading", level |-> w.level, text |-> w.text,
                                 job |-> w.job]
    ELSE IF w.block = "Image" THEN [block |-> "Image", url |-> w.url, alt |-> w.title]
    ELSE w

BlockStream(ui) == LET bs == Blocks(ui) IN [i \in 1..Len(bs) |-> BlockOf(bs[i])]

\* C16: with an empty query and an empty image cache the block stream depends
\* on the event sequence only: whatever the image loads of this pass answered
\* and whatever the scroll target, it is the block stream of a pass over the
\* same events in which no image can be loaded and no target is pending.
C16_OutputDependsOnEventsOnly ==
    comp_query = <<>> =>
        BlockStream(comp_st.ui)
           = BlockStream(render_events(comp_fed, <<>>, EmptyMap, None, NoWorld).st.ui)

\* an image with an alt text was loaded and drawn, where the pass compared
\* with draws a placeholder
C16_Witness ==
    /\ comp_query = <<>>
    /\ Fed(End("Image"))
    /\ is_some(Drawn[1].texture)
    /\ Drawn[1].title # <<>>

\* the buffers a text event can go to
Buffers(st) ==
    [code |-> st.code_block_content,
     heading |-> st.current_element.accumulated_text,
     cell |-> st.current_table_cell,
     item |-> st.current_list_item,
     paragraph |-> JobText(st.current_paragraph)]

StateAfter(k) ==
    render_loop(RenderState(EmptyMap), SubSeq(comp_fed, 1, k), CompEnv(NoWorld))

\* the paragraph-open that the paragraph-close just fed matches
ParagraphOpen ==
    LET opens == {i \in 1..Len(comp_fed) : comp_fed[i] = Start("Paragraph")}
    IN  CHOOSE i \in opens : \A j \in opens : j <= i

\* whether a text or inline-code event since the paragraph-open was recorded
\* into the paragraph's runs
RecordedSinceOpen ==
    \E k \in (ParagraphOpen + 1)..(Len(comp_fed) - 1) :
        /\ comp_fed[k].ev \in {"Text", "Code"}
        /\ StateAfter(k).current_paragraph # StateAfter(k - 1).current_paragraph

\* C18: a paragraph-close draws a Paragraph or BlockQuote block only if a text
\* or inline-code event was recorded into the paragraph's runs since the
\* matching paragraph-open; without such an event it draws no block and adds
\* no spacing.
C18_ParagraphNeedsContent ==
    Fed(End("Paragraph")) =>
        /\ \A i \in 1..Len(Drawn) : Drawn[i].block \in {"Paragraph", "BlockQuote", "Space"}
        /\ ~RecordedSinceOpen => Drawn = <<>>

\* a paragraph whose only text went elsewhere (the alt text of its image) was
\* closed and nothing was drawn for it
C18_Witness ==
    /\ Fed(End("Paragraph"))
    /\ Drawn = <<>>
    /\ \E k \in (ParagraphOpen + 1)..Len(comp_fed) : comp_fed[k].ev = "Text"
    /\ ~RecordedSinceOpen

\* C19: a heading-close draws a Heading block only if the heading's
\* accumulated text, trimmed, is non-empty; a heading of whitespace only
\* draws no block.
C19_HeadingNeedsTrimmedText ==
    Fed(End("Heading")) =>
        (trim(comp_pre.current_element.accumulated_text) = <<>> => Drawn = <<>>)

\* C20: at an item-close the item is appended to the innermost open list frame
\* if and only if its accumulated text is non-empty, and the item buffer is
\* empty afterwards in every case.
C20_ItemClose ==
    Fed(End("Item")) =>
        LET p == comp_pre
            n == Len(p.list_stack)
        IN  /\ n > 0
            /\ comp_st.list_stack =
                  IF p.current_list_item # <<>>
                  THEN [p.list_stack EXCEPT
                          ![n].items = Append(@, <<p.current_list_item,
                                                   p.current_nesting_level>>)]
                  ELSE p.list_stack
            /\ comp_st.current_list_item = <<>>

\* an item with text was closed and entered into the inner of two open lists
C20_Witness ==
    /\ Fed(End("Item"))
    /\ Len(comp_pre.list_stack) = 2
    /\ comp_pre.current_list_item # <<>>
    /\ Len(comp_st.list_stack[2].items) = 1
    /\ comp_st.list_stack[1].items = <<>>

\* the number of lists open after the events fed
OpenLists == Cardinality({i \in 1..Len(comp_open) : comp_open[i] = "List"})

\* C21: the nesting level of an item is the number of lists open when the item
\* is closed, counted from 0 for a top-level item; whenever the list stack is
\* non-empty the level the next closed item gets is the stack depth minus 1,
\* also after an inner list has closed and items of the outer list follow.
C21_LevelIsDepth ==
    /\ Len(comp_st.list_stack) = OpenLists
    /\ comp_st.list_stack # <<>> =>
          comp_st.current_nesting_level = Len(comp_st.list_stack) - 1
    /\ (Fed(End("Item")) /\ comp_pre.current_list_item # <<>>) =>
          LET items == comp_st.list_stack[Len(comp_st.list_stack)].items
          IN  items[Len(items)][2] = OpenLists - 1

\* an item of the outer list was closed at level 0 after an inner list, whose
\* item had level 1, was closed
C21_Witness ==
    /\ Fed(End("Item"))
    /\ \E k \in 1..Len(comp_fed) :
          /\ comp_fed[k] = End("List")
          /\ Len(StateAfter(k - 1).list_stack) = 2
          /\ StateAfter(k - 1).list_stack[2].items[1][2] = 1
    /\ Len(comp_st.list_stack) = 1
    /\ comp_pre.current_list_item # <<>>
    /\ comp_st.list_stack[1].items # comp_pre.list_stack[1].items
    /\ comp_st.list_stack[1].items[Len(comp_st.list_stack[1].items)][2] = 0

\* the Table blocks among the blocks the last event emitted
TablesDrawn == {i \in 1..Len(Drawn) : Drawn[i].block = "Table"}

\* C22: every table-close that follows a table-open emits exactly one Table
\* block, made of the headers and rows accumulated since the open, also when
\* the table has no header cells and no rows (render_table is then called
\* with both empty and draws nothing); after a table-close the compiler is
\* outside any table.
C22_TableCloseEmitsOneBlock ==
    Fed(End("Table")) =>
        /\ comp_pre.in_table
        /\ Cardinality(TablesDrawn) = 1
        /\ \A i \in TablesDrawn :
              /\ Drawn[i].headers = comp_pre.table_headers
              /\ Drawn[i].rows = comp_pre.table_rows
        /\ ~comp_st.in_table

\* a table was closed that had no header cells and no rows, and its Table
\* block was emitted
C22_Witness ==
    /\ Fed(End("Table"))
    /\ comp_pre.table_headers = <<>>
    /\ comp_pre.table_rows = <<>>
    /\ \E i \in TablesDrawn : ~Drawn[i].drawn

\* the image-open that the image-close just fed matches
ImageOpen ==
    LET opens == {i \in 1..Len(comp_fed) : comp_fed[i].ev = "Start"
                                             /\ comp_fed[i].tag = "Image"}
    IN  CHOOSE i \in opens : \A j \in opens : j <= i

\* the text events of events[i+1..j-1], concatenated
RECURSIVE AltBetween(_, _, _)
AltBetween(events, i, j) ==
    IF i + 1 >= j THEN <<>>
    ELSE AltBetween(events, i, j - 1)
         \o (IF events[j - 1].ev = "Text" THEN events[j - 1].text ELSE <<>>)

\* C23: every image-close emits exactly one Image block, whose url is the
\* reference captured by the matching image-open and whose alt is the text of
\* all text events between that open and the close; after the close the
\* captured reference and the alt-text accumulator are both empty.
C23_ImageBlock ==
    Fed(End("Image")) =>
        /\ Len(Blocks(Drawn)) = 1
        /\ Drawn[1].block = "Image"
        /\ Drawn[1].url = comp_fed[ImageOpen].dest_url
        /\ Drawn[1].title = AltBetween(comp_fed, ImageOpen, Len(comp_fed))
        /\ comp_st.current_element.link_url = <<>>
        /\ comp_st.current_element.accumulated_text = <<>>

\* C24: outside a code block a soft break appends exactly one space, and a hard
\* break exactly one newline, to exactly one buffer: the heading buffer if a
\* heading is open, else the item buffer if a list is open, else the
\* paragraph's runs; every other buffer stays as it was.
C24_BreakGoesToOneBuffer ==
    (comp_fed # <<>> /\ IsBreak(LastEvent) /\ ~comp_pre.in_code_block) =>
        LET p == comp_pre
            c == IF LastEvent.ev = "SoftBreak" THEN 32 ELSE 10
            dest == IF p.current_element.is_heading THEN "heading"
                    ELSE IF p.list_stack # <<>> THEN "item"
                    ELSE "paragraph"
        IN  \A b \in DOMAIN Buffers(p) :
               Buffers(comp_st)[b] = IF b = dest THEN Append(Buffers(p)[b], c)
                                     ELSE Buffers(p)[b]

\* a hard break came in a table cell and its newline went to the paragraph's
\* runs, the cell staying as it was
C24_Witness ==
    /\ Fed(HardBreak)
    /\ comp_pre.in_table
    /\ ~comp_pre.current_element.is_heading
    /\ comp_pre.list_stack = <<>>
    /\ JobText(comp_st.current_paragraph) = Append(JobText(comp_pre.current_paragraph), 10)
    /\ comp_st.current_table_cell = comp_pre.current_table_cell

\* C25: while a code block is open a soft break and a hard break change
\* nothing: the code buffer, the heading buffer, the item buffer, the cell
\* buffer, the paragraph's runs, every flag and the output are as before.
C25_BreakInCodeBlock ==
    (comp_fed # <<>> /\ IsBreak(LastEvent) /\ comp_pre.in_code_block) =>
        /\ Buffers(comp_st) = Buffers(comp_pre)
        /\ comp_st = comp_pre

\* a break came while a code block with text in it was open
C25_Witness ==
    /\ comp_fed # <<>>
    /\ IsBreak(LastEvent)
    /\ comp_pre.in_code_block
    /\ comp_pre.code_block_content # <<>>
    /\ comp_st.code_block_content = comp_pre.code_block_content

\* the session without its search results and cursor, and without the cursor
\* alone
OutsideSearch(a) == [a EXCEPT !.search_results = <<>>, !.current_search_index = 0]
OutsideCursor(a) == [a EXCEPT !.current_search_index = 0]

\* C26: perform_search, run on its own or after a query change, modifies only
\* the search results and the cursor: the document content, the current file,
\* the TOC, the image cache and the scroll target are as before (and so is
\* every other field but the query just typed); next_search_result and
\* previous_search_result modify only the cursor.
C26_SearchFrame ==
    /\ last_call \in {"perform_search", "search_text_changed"} =>
          /\ content = pre.content
          /\ current_file = pre.current_file
          /\ toc_headers = pre.toc_headers
          /\ image_cache = pre.image_cache
          /\ scroll_to_header = pre.scroll_to_header
          /\ OutsideSearch(App) =
                OutsideSearch([pre EXCEPT !.search_query =
                                 IF last_call = "search_text_changed" THEN last_arg ELSE @])
    /\ last_call \in {"next_search_result", "previous_search_result"} =>
          OutsideCursor(App) = OutsideCursor(pre)

\* a query change found matches in a loaded document that has TOC entries and
\* a loaded image in the cache
C26_Witness ==
    /\ last_call = "search_text_changed"
    /\ search_results # pre.search_results
    /\ search_results # <<>>
    /\ toc_headers # <<>>
    /\ image_cache # EmptyMap
    /\ is_some(current_file)

\* C27: for every text and every non-empty query, also with multi-byte text
\* and text whose byte length changes when lower-cased, neither the search nor
\* the splitting for the highlight slices past the end of a string or inside a
\* character: the offsets perform_search computes are character boundaries of
\* the line it scans, and the splitting of paragraph text, heading text and
\* inline code does not panic on its slices.
C27_SlicesOnCharBoundaries ==
    frag_query # <<>> =>
        /\ Searched =>
              \A i \in 1..Len(frag_out.search_results) :
                 LET r == frag_out.search_results[i]
                 IN  slice_ok(Folded(r.line_content), r.match_start, r.match_end)
        /\ Highlighted => ~frag_out.panic

------------------------------------------------------------------------------
\* Properties of the image resolution (ImgSpec)

\* the directory of a document path: the path up to its last separator, the
\* root for a file in the root, empty for a bare file name
DirectoryOf(path) ==
    LET n == CHOOSE k \in 0..Len(path) :
                /\ k = 0 \/ path[k] = 47
                /\ \A j \in (k + 1)..Len(path) : path[j] # 47
    IN  IF n <= 1 THEN SubSeq(path, 1, n) ELSE SubSeq(path, 1, n - 1)

\* ref joined to the directory dir: ref itself when it is absolute or dir is
\* empty, else ref inside dir
JoinedTo(dir, ref) ==
    IF (ref # <<>> /\ Head(ref) = 47) \/ dir = <<>> THEN ref
    ELSE IF dir = <<47>> THEN dir \o ref
    ELSE dir \o <<47>> \o ref

\* C28: image resolution reads over the network exactly when the reference
\* starts with "http://" or "https://"; every other reference is read as a
\* local file, at the path formed by joining the reference to the directory of
\* the currently loaded document, or at the reference itself when no document
\* is loaded.
C28_NetworkOrLocalFile ==
    img_pc = "try_load_image" =>
        LET remote == \E scheme \in {HttpPrefix, HttpsPrefix} :
                         /\ Len(img_url) >= Len(scheme)
                         /\ \A i \in 1..Len(scheme) : img_url[i] = scheme[i]
        IN  /\ img_out.read = "reqwest::blocking::get" <=> remote
            /\ img_out.read = "std::fs::read" <=> ~remote
            /\ remote => img_out.target = img_url
            /\ (~remote /\ img_file = None) => img_out.target = img_url
            /\ (~remote /\ img_file # None) =>
                  img_out.target = JoinedTo(DirectoryOf(img_file[1]), img_url)

\* the reference "https://a" was read over the network although a document in
\* a directory is loaded
C28_Witness ==
    /\ img_pc = "try_load_image"
    /\ img_url = HttpsPrefix \o <<97>>
    /\ img_file = Some(<<100, 47, 97, 46, 109, 100>>)
    /\ img_out = [read |-> "reqwest::blocking::get", target |-> img_url]

------------------------------------------------------------------------------
\* Further properties of the session (Spec)

\* C29: in every reachable state of the session the TOC is the heading
\* extraction of the current document content; only load_file changes it, and
\* load_file rebuilds it in full from the new content, keeping no entry of the
\* TOC before.
C29_TocIsOfContent ==
    /\ toc_headers = generate_toc([DefaultApp EXCEPT !.content = content]).toc_headers
    /\ last_call # "load_file" => toc_headers = pre.toc_headers
    /\ last_call # "load_file" => content = pre.content

\* a load replaced a document with another whose TOC is different, and both
\* have entries
C29_Witness ==
    /\ last_call = "load_file"
    /\ last_ret = "Ok"
    /\ pre.toc_headers # <<>>
    /\ toc_headers # <<>>
    /\ toc_headers # pre.toc_headers

\* whether the last render pass asked the view to scroll to a heading
ScrollDelivered ==
    /\ last_call = "render"
    /\ \E i \in 1..Len(last_ret.ui) :
          last_ret.ui[i].block = "Heading" /\ last_ret.ui[i].should_scroll

IsOpen(tag) == \E i \in 1..Len(comp_open) : comp_open[i] = tag

\* a text event was just fed inside a link within a paragraph, with no code
\* block, heading, table, list or image open
TextInParagraphLink ==
    /\ comp_fed # <<>>
    /\ LastEvent.ev = "Text"
    /\ IsOpen("Paragraph")
    /\ IsOpen("Link")
    /\ \A tag \in {"CodeBlock", "Heading", "Table", "List", "Item", "Image"} : ~IsOpen(tag)

\* C31: every text event inside a link within a paragraph (no code block,
\* heading, table, list or image open) is appended to the paragraph's runs with
\* link styling and recorded in the paragraph's links, the first link text
\* after the start of the document or after a heading like every later one.
C31_LinkTextGoesToParagraph ==
    TextInParagraphLink =>
        LET before == comp_pre.current_paragraph
            after == comp_st.current_paragraph
        IN  /\ JobText(after) = JobText(before) \o LastEvent.text
            /\ Len(after) > Len(before)
            /\ SubSeq(after, 1, Len(before)) = before
            /\ \A i \in (Len(before) + 1)..Len(after) : after[i].format.underline
            /\ comp_st.paragraph_links =
                  Append(comp_pre.paragraph_links,
                         <<comp_pre.current_element.link_url, LastEvent.text>>)

\* the items of the first n events: the texts of the items still open
\* (innermost last) and of the items closed, each item with the text events
\* that came directly in it
RECURSIVE ItemScan(_, _)
ItemScan(events, n) ==
    IF n = 0 THEN [open |-> <<>>, closed |-> <<>>]
    ELSE LET s == ItemScan(events, n - 1)
             e == events[n]
         IN  IF e.ev = "Start" /\ e.tag = "Item"
             THEN [s EXCEPT !.open = Append(@, <<>>)]
             ELSE IF e.ev = "End" /\ e.tag = "Item" /\ s.open # <<>>
             THEN [open |-> SubSeq(s.open, 1, Len(s.open) - 1),
                   closed |-> Append(s.closed, s.open[Len(s.open)])]
             ELSE IF e.ev = "Text" /\ s.open # <<>>
             THEN [s EXCEPT !.open[Len(s.open)] = @ \o e.text]
             ELSE s

\* whether the events fed are list, item and text events only
OnlyLists ==
    \A i \in 1..Len(comp_fed) :
        \/ comp_fed[i].ev = "Text"
        \/ comp_fed[i].ev \in {"Start", "End"} /\ comp_fed[i].tag \in {"List", "Item"}

\* the entries <<block, index>> of the List blocks drawn whose text is t
ListEntries(t) ==
    {p \in (1..Len(comp_st.ui)) \X (1..MaxEvents * 3) :
        /\ comp_st.ui[p[1]].block = "List"
        /\ p[2] <= Len(comp_st.ui[p[1]].items)
        /\ comp_st.ui[p[1]].items[p[2]][1] = t}

\* C32: opening a nested list or a nested item discards no text of an
\* enclosing item that is still open: once a sequence of list, item and text
\* events is balanced, each item that received non-empty text is, with that
\* text (trimmed, as lists are drawn), an item of exactly one List block drawn.
C32_NoItemTextLost ==
    (comp_fed # <<>> /\ comp_open = <<>> /\ OnlyLists) =>
        LET closed == ItemScan(comp_fed, Len(comp_fed)).closed
            items == {k \in 1..Len(closed) : closed[k] # <<>>}
        IN  \A k \in items :
               Cardinality(ListEntries(trim(closed[k])))
                  = Cardinality({j \in items : trim(closed[j]) = trim(closed[k])})

\* C33: in every reachable state of the session, after any document loads,
\* query edits, case-sensitivity toggles, search-bar closes and navigations,
\* the search results are the results of searching the current document text
\* with the current query in the current mode.
C33_ResultsAreCurrent ==
    search_results = perform_search(App).search_results

\* C34: in every reachable state of the session, if there are search results
\* the cursor is smaller than their number, so the render pass's lookup of the
\* current result is in range, after any interleaving of load_file,
\* perform_search, navigation and the clearing of the results when the search
\* bar is closed.
C34_CursorInRange ==
    search_results # <<>> => current_search_index < Len(search_results)

\* a search was run again, after the mode was changed, while the cursor stood
\* on the last of three results; it found two results and the cursor is in
\* range
C34_Witness ==
    /\ last_call = "perform_search"
    /\ pre.current_search_index >= Len(search_results)
    /\ search_results # <<>>
    /\ current_search_index < Len(search_results)

\* C35: each TOC entry's title is exactly the text of some Heading block the
\* compiler emitted for the same events, so that selecting the entry finds a
\* heading to scroll to, also for headings that hold soft or hard breaks or
\* leading or trailing whitespace.
C35_TocTitleIsAHeadingText ==
    \A k \in 1..Len(comp_toc.toc_headers) :
        \E i \in 1..Len(comp_st.ui) :
            /\ comp_st.ui[i].block = "Heading"
            /\ comp_st.ui[i].text = comp_toc.toc_headers[k].title

\* C36: a paragraph closed while at least one blockquote is still open is
\* emitted as a BlockQuote block, not as a plain Paragraph, also in nested
\* blockquotes after the inner one has closed and the outer one is still open.
C36_QuotedParagraphIsBlockQuote ==
    (Fed(End("Paragraph")) /\ IsOpen("BlockQuote")) =>
        \A i \in 1..Len(Drawn) : Drawn[i].block # "Paragraph"

\* C37: an inline-code event inside a list item or a table cell (no heading
\* open) is added to the text of that cell or item and does not mark the
\* paragraph as having content, so that no Paragraph block is emitted for
\* inline content of a list item or table cell.
C37_CodeGoesToItemOrCell ==
    (/\ comp_fed # <<>>
     /\ LastEvent.ev = "Code"
     /\ ~comp_pre.current_element.is_heading
     /\ (comp_pre.in_table \/ comp_pre.list_stack # <<>>)) =>
        LET dest == IF comp_pre.in_table THEN "cell" ELSE "item"
        IN  /\ Buffers(comp_st)[dest] = Buffers(comp_pre)[dest] \o LastEvent.text
            /\ comp_st.current_paragraph = comp_pre.current_paragraph
            /\ comp_st.paragraph_has_content = comp_pre.paragraph_has_content

\* the table-open that the table-close just fed matches
TableOpen ==
    LET opens == {i \in 1..Len(comp_fed) : comp_fed[i] = Start("Table")}
    IN  CHOOSE i \in opens : \A j \in opens : j <= i

\* the table of events[i+1..n]: the cells closed in the head section, the rows
\* closed in row sections, the cells of the section open (row) and the text
\* events of the cell open (cell)
RECURSIVE TableScan(_, _, _)
TableScan(events, i, n) ==
    IF n <= i THEN [headers |-> <<>>, rows |-> <<>>, row |-> <<>>, cell |-> <<>>]
    ELSE LET t == TableScan(events, i, n - 1)
             e == events[n]
         IN  IF e.ev = "Text" THEN [t EXCEPT !.cell = @ \o e.text]
             ELSE IF e.ev = "Start" /\ e.tag = "TableCell" THEN [t EXCEPT !.cell = <<>>]
             ELSE IF e.ev = "End" /\ e.tag = "TableCell"
             THEN [t EXCEPT !.row = Append(@, t.cell), !.cell = <<>>]
             ELSE IF e.ev = "Start" /\ e.tag \in {"TableHead", "TableRow"}
             THEN [t EXCEPT !.row = <<>>]
             ELSE IF e.ev = "End" /\ e.tag = "TableHead"
             THEN [t EXCEPT !.headers = @ \o t.row, !.row = <<>>]
             ELSE IF e.ev = "End" /\ e.tag = "TableRow"
             THEN [t EXCEPT !.rows = Append(@, t.row), !.row = <<>>]
             ELSE t

\* C38: at a table-close the Table block's headers are the cells closed inside
\* the table's head section and its rows are the rows closed inside its row
\* sections, in order, each cell the concatenation of the text events of that
\* cell; no header, row or cell of an earlier table is carried over.
C38_TableBlockIsTheTable ==
    Fed(End("Table")) =>
        LET t == TableScan(comp_fed, TableOpen, Len(comp_fed))
        IN  \E i \in 1..Len(Drawn) :
               /\ Drawn[i].block = "Table"
               /\ Drawn[i].headers = t.headers
               /\ Drawn[i].rows = t.rows

\* the second table of a document was closed: it has a header and no rows,
\* the table before it had a row
C38_Witness ==
    /\ Fed(End("Table"))
    /\ \E k \in 1..(TableOpen - 1) : comp_fed[k] = End("TableRow")
    /\ \E i \in 1..Len(Drawn) :
          /\ Drawn[i].block = "Table"
          /\ Drawn[i].headers = <<(<<97>>)>>
          /\ Drawn[i].rows = <<>>


-----------------------------------------------------------------------------
\* The scanning loops run one iteration at a time: the while-let loop of
\* perform_search over each line of frag_text, and the while-let loops of
\* the three highlight-splitting functions over frag_text.  frag_out holds
\* the loop's locals: prev is the scan position before the last match (-1
\* when the loop was just entered).

\* as if the scan resumed where the match began
scan_match_end_at_start(match_start, query_len) == match_start

\* let match_end = match_start + query.len(), the next scan position
scan_match_end(match_start, query_len) == match_start + query_len

\* the locals at the top of the loop: of perform_search on line n of the
\* document (let mut start = 0), of a highlight function on the whole text
\* (let mut last_end = 0; let mut start_pos = 0)
scan_begin(loop, n) ==
    IF loop = "perform_search"
    THEN LET line == lines(frag_text)[n]
         IN  [loop |-> loop, line |-> n, text_str |-> line,
              hay |-> IF frag_case THEN line ELSE to_lowercase(line),
              needle |-> IF frag_case THEN frag_query ELSE to_lowercase(frag_query),
              advance |-> Len(IF frag_case THEN frag_query
                              ELSE to_lowercase(frag_query)),
              prev |-> -1, start_pos |-> 0]
    ELSE [loop |-> loop, line |-> 0, text_str |-> frag_text,
          hay |-> to_lowercase(frag_text), needle |-> to_lowercase(frag_query),
          advance |-> Len(frag_query), prev |-> -1, start_pos |-> 0]

\* one evaluation of the loop condition and, on a match, of the loop body:
\* the new scan position, or that the loop is over, or that a slice panicked
scan_step(o) ==
    IF ~slice_ok(o.hay, o.start_pos, Len(o.hay))
    THEN [kind |-> "panic", start_pos |-> o.start_pos]
    ELSE
    LET pos == find(slice(o.hay, o.start_pos, Len(o.hay)), o.needle)
    IN  IF pos = None THEN [kind |-> "none", start_pos |-> o.start_pos]
        ELSE
        LET match_start == o.start_pos + pos[1]
            match_end == scan_match_end(match_start, o.advance)
        IN  IF /\ o.loop # "perform_search"
               /\ \/ match_start > o.start_pos
                        /\ ~slice_ok(o.text_str, o.start_pos, match_start)
                  \/ ~slice_ok(o.text_str, match_start, match_end)
            THEN [kind |-> "panic", start_pos |-> o.start_pos]
            ELSE [kind |-> "match", start_pos |-> match_end]

\* the function is called: it returns at once on an empty query (perform_search)
\* or is not called at all (the highlight functions, guarded by their callers),
\* and perform_search has no line to scan in an empty document
ScanEnter ==
    \E loop \in {"perform_search", "append_text_with_search_highlight",
                 "append_heading_with_search_highlight",
                 "append_inline_code_with_search_highlight"} :
    /\ frag_pc = "input"
    /\ IF frag_query = <<>> \/ (loop = "perform_search" /\ lines(frag_text) = <<>>)
       THEN /\ frag_pc' = "done"
            /\ frag_out' = [loop |-> loop, line |-> 0, text_str |-> <<>>,
                            hay |-> <<>>, needle |-> <<>>, advance |-> 0,
                            prev |-> -1, start_pos |-> 0]
       ELSE /\ frag_pc' = "scan"
            /\ frag_out' = scan_begin(loop, 1)
    /\ UNCHANGED <<frag_text, frag_query, frag_case, frag_element, appVars,
                   histVars, compVars, imgVars>>

\* while let Some(pos) = ...: the body runs and the scan position moves
ScanMatch ==
    /\ frag_pc = "scan"
    /\ scan_step(frag_out).kind = "match"
    /\ frag_out' = [frag_out EXCEPT !.prev = frag_out.start_pos,
                                    !.start_pos = scan_step(frag_out).start_pos]
    /\ frag_pc' = "scan"
    /\ UNCHANGED <<frag_text, frag_query, frag_case, frag_element, appVars,
                   histVars, compVars, imgVars>>

\* the loop ends: no further match (perform_search goes on to the next line,
\* if any), or a slice out of range or off a character boundary panics
ScanExit ==
    /\ frag_pc = "scan"
    /\ scan_step(frag_out).kind # "match"
    /\ IF scan_step(frag_out).kind = "panic"
       THEN frag_pc' = "panic" /\ frag_out' = frag_out
       ELSE IF frag_out.loop = "perform_search"
               /\ frag_out.line < Len(lines(frag_text))
       THEN frag_pc' = "scan"
            /\ frag_out' = scan_begin("perform_search", frag_out.line + 1)
       ELSE frag_pc' = "done" /\ frag_out' = frag_out
    /\ UNCHANGED <<frag_text, frag_query, frag_case, frag_element, appVars,
                   histVars, compVars, imgVars>>

ScanSpec == FragInit /\ [][ScanEnter \/ ScanMatch \/ ScanExit]_vars

\* C39: the scanning loops of perform_search and of the three
\* highlight-splitting functions are entered only with a non-empty query,
\* and inside a loop the scan position is strictly greater than it was
\* before the last match and never beyond the end of the scanned text, so
\* that every loop ends after finitely many matches.
C39_ScanPositionAdvances ==
    frag_pc = "scan" =>
        /\ frag_query # <<>>
        /\ frag_out.needle # <<>>
        /\ frag_out.advance >= 1
        /\ frag_out.prev < frag_out.start_pos
        /\ frag_out.start_pos <= Len(frag_out.hay) + Len(frag_out.text_str)

\* a loop has matched twice in one text and text remains to be scanned
C39_Witness ==
    /\ frag_pc = "scan"
    /\ frag_out.prev > 0
    /\ frag_out.start_pos > frag_out.prev
    /\ frag_out.start_pos < Len(frag_out.hay)

====
